---- MODULE Spec2Model ----
(***************************************************************************)
(* Remitwise contracts: the bill_payments contract (bills and their        *)
(* payment schedules) and the insurance contract (policies and their       *)
(* premium schedules), with the keeper sweep that executes due schedules   *)
(* and catches up on missed intervals.                                     *)
(*                                                                         *)
(* Every contract entry point is one atomic action (a ledger transaction). *)
(* The ledger timestamp is the variable now; Tick advances it.             *)
(***************************************************************************)
EXTENDS Integers, Sequences, FiniteSets, TLC

\* ------------------------------------------------------------------------
\* Bounds of the model
\* ------------------------------------------------------------------------
\* the ledger timestamp runs over 0..MaxTime
MaxTime == 3
\* bill ids (created bills and spawned successors) stay within 1..MaxBills
MaxBills == 3
\* schedule ids stay within 1..MaxSchedules
MaxSchedules == 2
\* create_bill and create_policy are invoked while the id they assign lies here
\* (later bill ids go to spawned successors)
CreatedIds == {1}
\* a run makes its store-changing invocations while their count lies here
CallBudget == 0..4

\* Inputs the callers may pass
Owners == {"alice", "bob"}
BillOwners == {"alice"}
Names == {"rent"}
DueDates == {2}
\* <<amount, recurring, frequency_days>>: two valid bills, the two invalid shapes
BillInputs == {<<1, FALSE, 0>>, <<2, TRUE, 1>>, <<0, FALSE, 0>>, <<1, TRUE, 0>>}
CoverageTypes == {"health"}
\* <<monthly_premium, coverage_amount>>: one valid policy, the two invalid shapes
PolicyInputs == {<<1, 2>>, <<0, 2>>, <<1, 0>>}
Intervals == {0, 2}

\* ------------------------------------------------------------------------
\* Program constants and helpers
\* ------------------------------------------------------------------------
\* Option::None of the Option<u32> / Option<u64> fields
None == -1

\* seconds per day, the factor of frequency_days in the successor's due date
SecondsPerDay == 86400

\* soroban Map::set / Map::remove on a map kept as a function
MapSet(m, k, v) == [x \in (DOMAIN m) \cup {k} |-> IF x = k THEN v ELSE m[x]]
MapRemove(m, k) == [x \in (DOMAIN m) \ {k} |-> m[x]]
EmptyMap == [x \in {} |-> None]

Min(S) == CHOOSE x \in S : \A y \in S : x <= y

VARIABLES
    contract,     \* which contract this instance is: "bill" or "insurance"
    now,          \* env.ledger().timestamp()
    bills,        \* storage BILLS: Map<u32, Bill>
    nextId,       \* storage NEXT_ID of the bill contract
    schedules,    \* storage SCHEDULES: Map<u32, Schedule>
    nextSch,      \* storage NEXT_SCH
    policies,     \* storage POLICIES: Map<u32, InsurancePolicy>
    nextPolicyId, \* storage NEXT_ID of the insurance contract
    premSchedules,\* storage PREM_SCH: Map<u32, PremiumSchedule>
    nextPremSch,  \* storage NEXT_PSCH
    last,         \* the invocation that just ran: arguments, result, events, and
                  \* the stores as it found them (NoCall when none is outstanding)
    calls,        \* number of invocations that changed the stores (model bound)
    linked        \* history: the bill each schedule was created for

billVars == <<bills, nextId, schedules, nextSch>>
insVars == <<policies, nextPolicyId, premSchedules, nextPremSch>>
vars == <<contract, now, billVars, insVars, last, calls, linked>>

\* the persisted state of the bill contract
BillStore == [bills |-> bills, nextId |-> nextId,
              schedules |-> schedules, nextSch |-> nextSch]

\* the persisted state of the insurance contract
InsStore == [policies |-> policies, nextPolicyId |-> nextPolicyId,
             premSchedules |-> premSchedules, nextPremSch |-> nextPremSch]

\* What an invocation returns and publishes
Call(op, args, res, val, executed, events, pre) ==
    [op |-> op, args |-> args, res |-> res, val |-> val,
     executed |-> executed, events |-> events, pre |-> pre]
NoCall == Call("none", <<>>, "Ok", None, <<>>, <<>>, <<>>)
Failed(op, args, err, pre) == Call(op, args, err, None, <<>>, <<>>, pre)
Event(topic, kind, data) == [topic |-> topic, kind |-> kind, data |-> data]

Idle == last = NoCall

\* ids a caller may name: every id assigned so far and the first unassigned one
BillIdInputs == 1..(nextId + 1)
ScheduleIdInputs == 1..(nextSch + 1)
PolicyIdInputs == 1..(nextPolicyId + 1)
PremScheduleIdInputs == 1..(nextPremSch + 1)
\* <<next_due, interval>>: a due time that is not in the future, and future ones
ScheduleInputs == {<<now, 2>>} \cup {<<now + 1, i>> : i \in Intervals}
\* <<caller, id, next_due, interval>>: an owner with every input, anyone else with one
ScheduleCalls(ids) ==
    {<<c, i, k[1], k[2]>> : c \in BillOwners, i \in ids, k \in ScheduleInputs}
    \cup {<<c, i, now + 1, 2>> : c \in Owners \ BillOwners, i \in ids}

\* ------------------------------------------------------------------------
\* bill_payments: create_bill
\* ------------------------------------------------------------------------
NewBill(next_id, owner, name, amount, due_date, recurring, frequency_days, current_time) ==
    [id |-> next_id, owner |-> owner, name |-> name, amount |-> amount,
     due_date |-> due_date, recurring |-> recurring,
     frequency_days |-> frequency_days, paid |-> FALSE,
     created_at |-> current_time, paid_at |-> None, schedule_id |-> None]

\* variant: only a negative amount is rejected
CreateBillErrorLax(amount, recurring, frequency_days) ==
    IF amount < 0 THEN "InvalidAmount"
    ELSE IF recurring /\ frequency_days = 0 THEN "InvalidFrequency"
    ELSE "Ok"

CreateBillError(amount, recurring, frequency_days) ==
    IF amount <= 0 THEN "InvalidAmount"
    ELSE IF recurring /\ frequency_days = 0 THEN "InvalidFrequency"
    ELSE "Ok"

\* variant: the new id is the number of stored bills plus 1
CreateBillCountsIds(owner, name, amount, due_date, recurring, frequency_days) ==
    /\ LET err == CreateBillError(amount, recurring, frequency_days)
           next_id == Cardinality(DOMAIN bills) + 1
           args == <<owner, name, amount, due_date, recurring, frequency_days>>
       IN IF err # "Ok"
          THEN /\ last' = Failed("create_bill", args, err, BillStore)
               /\ UNCHANGED <<bills, nextId, calls>>
          ELSE /\ next_id \in CreatedIds /\ calls \in CallBudget
               /\ bills' = MapSet(bills, next_id,
                      NewBill(next_id, owner, name, amount, due_date, recurring,
                              frequency_days, now))
               /\ nextId' = next_id
               /\ calls' = calls + 1
               /\ last' = Call("create_bill", args, "Ok", next_id, <<>>,
                               <<Event("bill", "Created", <<next_id, owner>>)>>,
                               BillStore)
    /\ UNCHANGED <<contract, now, schedules, nextSch, linked>>

CreateBill(owner, name, amount, due_date, recurring, frequency_days) ==
    /\ LET err == CreateBillError(amount, recurring, frequency_days)
           next_id == nextId + 1
           args == <<owner, name, amount, due_date, recurring, frequency_days>>
       IN IF err # "Ok"
          THEN /\ last' = Failed("create_bill", args, err, BillStore)
               /\ UNCHANGED <<bills, nextId, calls>>
          ELSE /\ next_id \in CreatedIds /\ calls \in CallBudget
               /\ bills' = MapSet(bills, next_id,
                      NewBill(next_id, owner, name, amount, due_date, recurring,
                              frequency_days, now))
               /\ nextId' = next_id
               /\ calls' = calls + 1
               /\ last' = Call("create_bill", args, "Ok", next_id, <<>>,
                               <<Event("bill", "Created", <<next_id, owner>>)>>,
                               BillStore)
    /\ UNCHANGED <<contract, now, schedules, nextSch, linked>>

\* ------------------------------------------------------------------------
\* bill_payments: pay_bill
\* ------------------------------------------------------------------------
\* variant: any caller may pay a stored bill
PayBillErrorAnyCaller(bs, caller, bill_id) ==
    IF bill_id \notin DOMAIN bs THEN "BillNotFound"
    ELSE IF bs[bill_id].paid THEN "BillAlreadyPaid"
    ELSE "Ok"

\* variant: a bill that is paid already is accepted again
PayBillErrorRepay(bs, caller, bill_id) ==
    IF bill_id \notin DOMAIN bs THEN "BillNotFound"
    ELSE IF bs[bill_id].owner # caller THEN "Unauthorized"
    ELSE "Ok"

PayBillError(bs, caller, bill_id) ==
    IF bill_id \notin DOMAIN bs THEN "BillNotFound"
    ELSE IF bs[bill_id].owner # caller THEN "Unauthorized"
    ELSE IF bs[bill_id].paid THEN "BillAlreadyPaid"
    ELSE "Ok"

\* variant: the successor pay_bill creates does not inherit the schedule id
NextBillUnlinked(bill, next_id, current_time) ==
    [id |-> next_id, owner |-> bill.owner, name |-> bill.name,
     amount |-> bill.amount,
     due_date |-> bill.due_date + bill.frequency_days * SecondsPerDay,
     recurring |-> TRUE, frequency_days |-> bill.frequency_days,
     paid |-> FALSE, created_at |-> current_time, paid_at |-> None,
     schedule_id |-> None]

\* variant: the frequency is added to the due date as seconds, not as days
NextBillInSeconds(bill, next_id, current_time) ==
    [id |-> next_id, owner |-> bill.owner, name |-> bill.name,
     amount |-> bill.amount,
     due_date |-> bill.due_date + bill.frequency_days,
     recurring |-> TRUE, frequency_days |-> bill.frequency_days,
     paid |-> FALSE, created_at |-> current_time, paid_at |-> None,
     schedule_id |-> bill.schedule_id]

\* the successor pay_bill creates for a recurring bill
NextBill(bill, next_id, current_time) ==
    [id |-> next_id, owner |-> bill.owner, name |-> bill.name,
     amount |-> bill.amount,
     due_date |-> bill.due_date + bill.frequency_days * SecondsPerDay,
     recurring |-> TRUE, frequency_days |-> bill.frequency_days,
     paid |-> FALSE, created_at |-> current_time, paid_at |-> None,
     schedule_id |-> bill.schedule_id]

\* variant: the bill is marked paid without the time of payment
PayBillStoreUnstamped(bs, nid, bill_id, current_time) ==
    LET bill == [bs[bill_id] EXCEPT !.paid = TRUE]
    IN IF bill.recurring
       THEN [bills |-> MapSet(MapSet(bs, nid + 1, NextBill(bill, nid + 1, current_time)),
                              bill_id, bill),
             nextId |-> nid + 1]
       ELSE [bills |-> MapSet(bs, bill_id, bill), nextId |-> nid]

\* BILLS and NEXT_ID after a successful pay_bill
PayBillStore(bs, nid, bill_id, current_time) ==
    LET bill == [bs[bill_id] EXCEPT !.paid = TRUE, !.paid_at = current_time]
    IN IF bill.recurring
       THEN [bills |-> MapSet(MapSet(bs, nid + 1, NextBill(bill, nid + 1, current_time)),
                              bill_id, bill),
             nextId |-> nid + 1]
       ELSE [bills |-> MapSet(bs, bill_id, bill), nextId |-> nid]

PayBill(caller, bill_id) ==
    /\ LET err == PayBillError(bills, caller, bill_id)
           r == PayBillStore(bills, nextId, bill_id, now)
       IN IF err # "Ok"
          THEN /\ last' = Failed("pay_bill", <<caller, bill_id>>, err, BillStore)
               /\ UNCHANGED <<bills, nextId, calls>>
          ELSE /\ r.nextId <= MaxBills /\ calls \in CallBudget
               /\ bills' = r.bills
               /\ nextId' = r.nextId
               /\ calls' = calls + 1
               /\ last' = Call("pay_bill", <<caller, bill_id>>, "Ok", None, <<>>,
                               <<Event("bill", "Paid", <<bill_id, caller>>)>>,
                               BillStore)
    /\ UNCHANGED <<contract, now, schedules, nextSch, linked>>

\* ------------------------------------------------------------------------
\* bill_payments: read accessors
\* ------------------------------------------------------------------------
get_bill(bill_id) == IF bill_id \in DOMAIN bills THEN bills[bill_id] ELSE None

RECURSIVE SumAmounts(_, _)
SumAmounts(bs, ids) ==
    IF ids = {} THEN 0
    ELSE LET k == Min(ids) IN bs[k].amount + SumAmounts(bs, ids \ {k})

\* variant: the total counts the owner's paid bills too
get_total_of_owner(owner) ==
    SumAmounts(bills, {b \in DOMAIN bills : bills[b].owner = owner})

get_total_unpaid(owner) ==
    SumAmounts(bills, {b \in DOMAIN bills : ~bills[b].paid /\ bills[b].owner = owner})

\* the bills of the given ids, in key order
RECURSIVE BillsInKeyOrder(_, _)
BillsInKeyOrder(bs, ids) ==
    IF ids = {} THEN <<>>
    ELSE LET k == Min(ids) IN <<bs[k]>> \o BillsInKeyOrder(bs, ids \ {k})

\* variant: the list holds every bill of the owner, paid or not
get_bills_of_owner(bs, owner) ==
    BillsInKeyOrder(bs, {b \in DOMAIN bs : bs[b].owner = owner})

get_unpaid_bills(bs, owner) ==
    BillsInKeyOrder(bs, {b \in DOMAIN bs : ~bs[b].paid /\ bs[b].owner = owner})

\* ------------------------------------------------------------------------
\* bill_payments: cancel_bill
\* ------------------------------------------------------------------------
\* variant: a bill that has been paid is kept
CancelBillUnpaidOnly(bill_id) ==
    /\ IF bill_id \notin DOMAIN bills
       THEN /\ last' = Failed("cancel_bill", <<bill_id>>, "BillNotFound", BillStore)
            /\ UNCHANGED <<bills, calls>>
       ELSE IF bills[bill_id].paid
       THEN /\ last' = Failed("cancel_bill", <<bill_id>>, "BillAlreadyPaid", BillStore)
            /\ UNCHANGED <<bills, calls>>
       ELSE /\ calls \in CallBudget
            /\ bills' = MapRemove(bills, bill_id)
            /\ calls' = calls + 1
            /\ last' = Call("cancel_bill", <<bill_id>>, "Ok", None, <<>>, <<>>, BillStore)
    /\ UNCHANGED <<contract, now, nextId, schedules, nextSch, linked>>

CancelBill(bill_id) ==
    /\ IF bill_id \notin DOMAIN bills
       THEN /\ last' = Failed("cancel_bill", <<bill_id>>, "BillNotFound", BillStore)
            /\ UNCHANGED <<bills, calls>>
       ELSE /\ calls \in CallBudget
            /\ bills' = MapRemove(bills, bill_id)
            /\ calls' = calls + 1
            /\ last' = Call("cancel_bill", <<bill_id>>, "Ok", None, <<>>, <<>>, BillStore)
    /\ UNCHANGED <<contract, now, nextId, schedules, nextSch, linked>>

\* ------------------------------------------------------------------------
\* bill_payments: create_schedule, modify_schedule, cancel_schedule
\* ------------------------------------------------------------------------
\* variant: a new schedule counts as executed at its creation
NewScheduleExecuted(next_schedule_id, owner, next_due, interval, current_time) ==
    [id |-> next_schedule_id, owner |-> owner, next_due |-> next_due,
     interval |-> interval, recurring |-> interval > 0, active |-> TRUE,
     created_at |-> current_time, last_executed |-> current_time, missed_count |-> 0]

NewSchedule(next_schedule_id, owner, next_due, interval, current_time) ==
    [id |-> next_schedule_id, owner |-> owner, next_due |-> next_due,
     interval |-> interval, recurring |-> interval > 0, active |-> TRUE,
     created_at |-> current_time, last_executed |-> None, missed_count |-> 0]

\* variant: the owner given need not be the owner of the bill
CreateScheduleErrorAnyOwner(bs, owner, bill_id, next_due, current_time) ==
    IF bill_id \notin DOMAIN bs THEN "BillNotFound"
    ELSE IF next_due <= current_time THEN "InvalidAmount"
    ELSE "Ok"

\* variant: a due time equal to the clock value is accepted
CreateScheduleErrorLax(bs, owner, bill_id, next_due, current_time) ==
    IF bill_id \notin DOMAIN bs THEN "BillNotFound"
    ELSE IF bs[bill_id].owner # owner THEN "Unauthorized"
    ELSE IF next_due < current_time THEN "InvalidAmount"
    ELSE "Ok"

CreateScheduleError(bs, owner, bill_id, next_due, current_time) ==
    IF bill_id \notin DOMAIN bs THEN "BillNotFound"
    ELSE IF bs[bill_id].owner # owner THEN "Unauthorized"
    ELSE IF next_due <= current_time THEN "InvalidAmount"
    ELSE "Ok"

CreateSchedule(owner, bill_id, next_due, interval) ==
    /\ LET err == CreateScheduleError(bills, owner, bill_id, next_due, now)
           next_schedule_id == nextSch + 1
           args == <<owner, bill_id, next_due, interval>>
       IN IF err # "Ok"
          THEN /\ last' = Failed("create_schedule", args, err, BillStore)
               /\ UNCHANGED <<bills, schedules, nextSch, calls, linked>>
          ELSE /\ next_schedule_id <= MaxSchedules /\ calls \in CallBudget
               /\ schedules' = MapSet(schedules, next_schedule_id,
                      NewSchedule(next_schedule_id, owner, next_due, interval, now))
               /\ nextSch' = next_schedule_id
               /\ bills' = MapSet(bills, bill_id,
                      [bills[bill_id] EXCEPT !.schedule_id = next_schedule_id])
               /\ linked' = MapSet(linked, next_schedule_id, bill_id)
               /\ calls' = calls + 1
               /\ last' = Call("create_schedule", args, "Ok", next_schedule_id, <<>>,
                               <<Event("schedule", "Created", <<next_schedule_id, owner>>)>>,
                               BillStore)
    /\ UNCHANGED <<contract, now, nextId>>

\* variant: a due time that is not in the future is accepted
ModifyScheduleErrorAnyDue(ss, caller, schedule_id, next_due, current_time) ==
    IF schedule_id \notin DOMAIN ss THEN "BillNotFound"
    ELSE IF ss[schedule_id].owner # caller THEN "Unauthorized"
    ELSE "Ok"

\* variant: any caller may modify a stored schedule
ModifyScheduleErrorAnyCaller(ss, caller, schedule_id, next_due, current_time) ==
    IF schedule_id \notin DOMAIN ss THEN "BillNotFound"
    ELSE IF next_due <= current_time THEN "InvalidAmount"
    ELSE "Ok"

ModifyScheduleError(ss, caller, schedule_id, next_due, current_time) ==
    IF schedule_id \notin DOMAIN ss THEN "BillNotFound"
    ELSE IF ss[schedule_id].owner # caller THEN "Unauthorized"
    ELSE IF next_due <= current_time THEN "InvalidAmount"
    ELSE "Ok"

\* variant: a modification keeps the recurring flag the schedule had
ModifiedKeepsRecurring(schedule, next_due, interval) ==
    [schedule EXCEPT !.next_due = next_due, !.interval = interval]

\* variant: a modification starts the schedule's statistics afresh
ModifiedResetsCount(schedule, next_due, interval) ==
    [schedule EXCEPT !.next_due = next_due, !.interval = interval,
                     !.recurring = interval > 0, !.missed_count = 0]

\* variant: a modification switches the schedule on again
ModifiedReactivates(schedule, next_due, interval) ==
    [schedule EXCEPT !.next_due = next_due, !.interval = interval,
                     !.recurring = interval > 0, !.active = TRUE]

Modified(schedule, next_due, interval) ==
    [schedule EXCEPT !.next_due = next_due, !.interval = interval,
                     !.recurring = interval > 0]

ModifySchedule(caller, schedule_id, next_due, interval) ==
    /\ LET err == ModifyScheduleError(schedules, caller, schedule_id, next_due, now)
           args == <<caller, schedule_id, next_due, interval>>
       IN IF err # "Ok"
          THEN /\ last' = Failed("modify_schedule", args, err, BillStore)
               /\ UNCHANGED <<schedules, calls>>
          ELSE /\ calls \in CallBudget
               /\ schedules' = MapSet(schedules, schedule_id,
                      Modified(schedules[schedule_id], next_due, interval))
               /\ calls' = calls + 1
               /\ last' = Call("modify_schedule", args, "Ok", None, <<>>,
                               <<Event("schedule", "Modified", <<schedule_id, caller>>)>>,
                               BillStore)
    /\ UNCHANGED <<contract, now, bills, nextId, nextSch, linked>>

CancelScheduleError(ss, caller, schedule_id) ==
    IF schedule_id \notin DOMAIN ss THEN "BillNotFound"
    ELSE IF ss[schedule_id].owner # caller THEN "Unauthorized"
    ELSE "Ok"

Cancelled(schedule) == [schedule EXCEPT !.active = FALSE]

\* variant: a cancelled schedule is deleted from the store
CancelScheduleRemoves(caller, schedule_id) ==
    /\ LET err == CancelScheduleError(schedules, caller, schedule_id)
       IN IF err # "Ok"
          THEN /\ last' = Failed("cancel_schedule", <<caller, schedule_id>>, err, BillStore)
               /\ UNCHANGED <<schedules, calls>>
          ELSE /\ calls \in CallBudget
               /\ schedules' = MapRemove(schedules, schedule_id)
               /\ calls' = calls + 1
               /\ last' = Call("cancel_schedule", <<caller, schedule_id>>, "Ok", None, <<>>,
                               <<Event("schedule", "Cancelled", <<schedule_id, caller>>)>>,
                               BillStore)
    /\ UNCHANGED <<contract, now, bills, nextId, nextSch, linked>>

CancelSchedule(caller, schedule_id) ==
    /\ LET err == CancelScheduleError(schedules, caller, schedule_id)
       IN IF err # "Ok"
          THEN /\ last' = Failed("cancel_schedule", <<caller, schedule_id>>, err, BillStore)
               /\ UNCHANGED <<schedules, calls>>
          ELSE /\ calls \in CallBudget
               /\ schedules' = MapSet(schedules, schedule_id,
                      Cancelled(schedules[schedule_id]))
               /\ calls' = calls + 1
               /\ last' = Call("cancel_schedule", <<caller, schedule_id>>, "Ok", None, <<>>,
                               <<Event("schedule", "Cancelled", <<schedule_id, caller>>)>>,
                               BillStore)
    /\ UNCHANGED <<contract, now, bills, nextId, nextSch, linked>>

\* ------------------------------------------------------------------------
\* bill_payments: execute_due_schedules (the keeper sweep)
\* ------------------------------------------------------------------------
\* variant: a schedule is selected only at the clock value it is due at
IsDueOnTimeOnly(schedule, current_time) ==
    schedule.active /\ schedule.next_due = current_time

\* variant: the active flag is not consulted
IsDueWhateverState(schedule, current_time) ==
    schedule.next_due <= current_time

\* variant: a schedule whose due time is exactly the clock value is not selected
IsDueStrict(schedule, current_time) ==
    schedule.active /\ schedule.next_due < current_time

\* the loop's filter: a schedule is skipped unless active and due
IsDue(schedule, current_time) ==
    schedule.active /\ schedule.next_due <= current_time

\* the first bill, in key order, that carries the schedule id
\* variant: the first unpaid bill, in key order, that carries the schedule id
find_unpaid_bill_by_schedule(bs, schedule_id) ==
    LET hits == {b \in DOMAIN bs : bs[b].schedule_id = schedule_id /\ ~bs[b].paid}
    IN IF hits = {} THEN None ELSE Min(hits)

find_bill_by_schedule(bs, schedule_id) ==
    LET hits == {b \in DOMAIN bs : bs[b].schedule_id = schedule_id}
    IN IF hits = {} THEN None ELSE Min(hits)

\* variant: the successor falls due one period after the sweep, not after the bill
SweepNextBillFromNow(bill, next_id, current_time) ==
    [id |-> next_id, owner |-> bill.owner, name |-> bill.name,
     amount |-> bill.amount,
     due_date |-> current_time + bill.frequency_days * SecondsPerDay,
     recurring |-> TRUE, frequency_days |-> bill.frequency_days,
     paid |-> FALSE, created_at |-> current_time, paid_at |-> None,
     schedule_id |-> bill.schedule_id]

\* the successor the sweep creates inline for a recurring bill
SweepNextBill(bill, next_id, current_time) ==
    [id |-> next_id, owner |-> bill.owner, name |-> bill.name,
     amount |-> bill.amount,
     due_date |-> bill.due_date + bill.frequency_days * SecondsPerDay,
     recurring |-> TRUE, frequency_days |-> bill.frequency_days,
     paid |-> FALSE, created_at |-> current_time, paid_at |-> None,
     schedule_id |-> bill.schedule_id]

\* variant: the successor is fulfilled in the sweep that creates it
SweepBillAndSuccessor(bs, nid, bid, current_time) ==
    IF bid = None \/ bid \notin DOMAIN bs \/ bs[bid].paid
    THEN [bills |-> bs, nextId |-> nid, paidNow |-> FALSE]
    ELSE LET bill == [bs[bid] EXCEPT !.paid = TRUE, !.paid_at = current_time]
         IN IF bill.recurring
            THEN [bills |-> MapSet(MapSet(bs, nid + 1,
                                          [SweepNextBill(bill, nid + 1, current_time)
                                              EXCEPT !.paid = TRUE,
                                                     !.paid_at = current_time]),
                                   bid, bill),
                  nextId |-> nid + 1, paidNow |-> TRUE]
            ELSE [bills |-> MapSet(bs, bid, bill), nextId |-> nid, paidNow |-> TRUE]

\* variant: the sweep fulfils the resolved bill whether or not it is paid
SweepBillRepay(bs, nid, bid, current_time) ==
    IF bid = None \/ bid \notin DOMAIN bs
    THEN [bills |-> bs, nextId |-> nid, paidNow |-> FALSE]
    ELSE LET bill == [bs[bid] EXCEPT !.paid = TRUE, !.paid_at = current_time]
         IN IF bill.recurring
            THEN [bills |-> MapSet(MapSet(bs, nid + 1,
                                          SweepNextBill(bill, nid + 1, current_time)),
                                   bid, bill),
                  nextId |-> nid + 1, paidNow |-> TRUE]
            ELSE [bills |-> MapSet(bs, bid, bill), nextId |-> nid, paidNow |-> TRUE]

\* BILLS and NEXT_ID after the sweep has handled the bill resolved for one
\* schedule; paidNow tells whether it fulfilled the bill
SweepBill(bs, nid, bid, current_time) ==
    IF bid = None \/ bid \notin DOMAIN bs \/ bs[bid].paid
    THEN [bills |-> bs, nextId |-> nid, paidNow |-> FALSE]
    ELSE LET bill == [bs[bid] EXCEPT !.paid = TRUE, !.paid_at = current_time]
         IN IF bill.recurring
            THEN [bills |-> MapSet(MapSet(bs, nid + 1,
                                          SweepNextBill(bill, nid + 1, current_time)),
                                   bid, bill),
                  nextId |-> nid + 1, paidNow |-> TRUE]
            ELSE [bills |-> MapSet(bs, bid, bill), nextId |-> nid, paidNow |-> TRUE]

\* the catch-up loop: while next <= current_time { missed += 1; next += interval }
RECURSIVE CatchUpLoop(_, _, _, _)
CatchUpLoop(next, missed, interval, current_time) ==
    IF next <= current_time
    THEN CatchUpLoop(next + interval, missed + 1, interval, current_time)
    ELSE [next |-> next, missed |-> missed]

\* variant: the loop starts at the due time itself and counts it as missed
CatchUpFromDue(schedule, current_time) ==
    CatchUpLoop(schedule.next_due, 0, schedule.interval, current_time)

CatchUp(schedule, current_time) ==
    CatchUpLoop(schedule.next_due + schedule.interval, 0, schedule.interval, current_time)

\* variant: a recurring schedule moves one interval ahead, without catching up
AdvanceOneStep(schedule, current_time) ==
    IF schedule.recurring /\ schedule.interval > 0
    THEN [schedule EXCEPT !.last_executed = current_time,
                          !.next_due = schedule.next_due + schedule.interval]
    ELSE [schedule EXCEPT !.last_executed = current_time, !.active = FALSE]

\* variant: a recurring schedule is rescheduled one interval after the clock value
AdvanceFromNow(schedule, current_time) ==
    IF schedule.recurring /\ schedule.interval > 0
    THEN [schedule EXCEPT !.last_executed = current_time,
                          !.missed_count = schedule.missed_count
                                           + CatchUp(schedule, current_time).missed,
                          !.next_due = current_time + schedule.interval]
    ELSE [schedule EXCEPT !.last_executed = current_time, !.active = FALSE]

\* variant: a one-time schedule is left active after its execution
AdvanceKeepActive(schedule, current_time) ==
    IF schedule.recurring /\ schedule.interval > 0
    THEN LET c == CatchUp(schedule, current_time)
         IN [schedule EXCEPT !.last_executed = current_time,
                             !.missed_count = schedule.missed_count + c.missed,
                             !.next_due = c.next]
    ELSE [schedule EXCEPT !.last_executed = current_time]

\* the schedule after its execution at current_time
Advance(schedule, current_time) ==
    IF schedule.recurring /\ schedule.interval > 0
    THEN LET c == CatchUp(schedule, current_time)
         IN [schedule EXCEPT !.last_executed = current_time,
                             !.missed_count = schedule.missed_count + c.missed,
                             !.next_due = c.next]
    ELSE [schedule EXCEPT !.last_executed = current_time, !.active = FALSE]

\* variant: the period the sweep executes is reported as missed too
MissedInWithCurrent(schedule, current_time) ==
    IF schedule.recurring /\ schedule.interval > 0
    THEN CatchUp(schedule, current_time).missed + 1 ELSE 0

MissedIn(schedule, current_time) ==
    IF schedule.recurring /\ schedule.interval > 0
    THEN CatchUp(schedule, current_time).missed ELSE 0

\* the body of the loop for a schedule that is active and due
ExecuteSchedule(acc, schedule_id, schedule, current_time) ==
    LET bid == find_bill_by_schedule(acc.bills, schedule_id)
        b == SweepBill(acc.bills, acc.nextId, bid, current_time)
        missed == MissedIn(schedule, current_time)
    IN [bills |-> b.bills,
        nextId |-> b.nextId,
        schedules |-> MapSet(acc.schedules, schedule_id,
                             Advance(schedule, current_time)),
        executed |-> Append(acc.executed, schedule_id),
        events |-> acc.events
            \o (IF b.paidNow
                THEN <<Event("bill", "Paid", <<bid, schedule.owner>>)>>
                ELSE <<>>)
            \o (IF missed > 0
                THEN <<Event("schedule", "Missed", <<schedule_id, missed>>)>>
                ELSE <<>>)
            \o <<Event("schedule", "Executed", schedule_id)>>]

\* variant: the sweep stamps every schedule it visits
SweepStepStampsAll(acc, snapshot, schedule_id, current_time) ==
    LET schedule == snapshot[schedule_id]
    IN IF ~IsDue(schedule, current_time)
       THEN [acc EXCEPT !.schedules =
                MapSet(acc.schedules, schedule_id,
                       [schedule EXCEPT !.last_executed = current_time])]
       ELSE ExecuteSchedule(acc, schedule_id, schedule, current_time)

\* variant: a schedule for which no bill is found is passed over
SweepStepSkipsOrphan(acc, snapshot, schedule_id, current_time) ==
    LET schedule == snapshot[schedule_id]
    IN IF ~IsDue(schedule, current_time)
          \/ find_bill_by_schedule(acc.bills, schedule_id) = None
       THEN acc
       ELSE ExecuteSchedule(acc, schedule_id, schedule, current_time)

\* one iteration of the loop over the schedules
SweepStep(acc, snapshot, schedule_id, current_time) ==
    LET schedule == snapshot[schedule_id]
    IN IF ~IsDue(schedule, current_time) THEN acc
       ELSE ExecuteSchedule(acc, schedule_id, schedule, current_time)

\* the loop, in the key order of the map
RECURSIVE SweepLoop(_, _, _, _)
SweepLoop(acc, snapshot, keys, current_time) ==
    IF keys = {} THEN acc
    ELSE LET k == Min(keys)
         IN SweepLoop(SweepStep(acc, snapshot, k, current_time), snapshot,
                      keys \ {k}, current_time)

Sweep(bs, nid, ss, current_time) ==
    SweepLoop([bills |-> bs, nextId |-> nid, schedules |-> ss,
               executed |-> <<>>, events |-> <<>>],
              ss, DOMAIN ss, current_time)

ExecuteDueSchedules ==
    /\ LET r == Sweep(bills, nextId, schedules, now)
       IN /\ r.nextId <= MaxBills
          /\ r.executed # <<>> => calls \in CallBudget
          /\ bills' = r.bills
          /\ nextId' = r.nextId
          /\ schedules' = r.schedules
          /\ calls' = IF r.executed # <<>> THEN calls + 1 ELSE calls
          /\ last' = Call("execute_due_schedules", <<>>, "Ok", None, r.executed,
                          r.events, BillStore)
    /\ UNCHANGED <<contract, now, nextSch, linked>>

\* ------------------------------------------------------------------------
\* insurance: create_policy, pay_premium, deactivate_policy
\* ------------------------------------------------------------------------
\* the premium period: next_payment_date = timestamp + 30 * 86400
PremiumPeriod == 30 * SecondsPerDay

NewPolicy(next_id, owner, name, coverage_type, monthly_premium, coverage_amount, current_time) ==
    [id |-> next_id, owner |-> owner, name |-> name, coverage_type |-> coverage_type,
     monthly_premium |-> monthly_premium, coverage_amount |-> coverage_amount,
     active |-> TRUE, next_payment_date |-> current_time + PremiumPeriod,
     schedule_id |-> None]

\* variant: a policy without coverage is accepted
CreatePolicyPanicNoCoverage(monthly_premium, coverage_amount) ==
    IF monthly_premium <= 0 THEN "Monthly premium must be positive"
    ELSE IF coverage_amount < 0 THEN "Coverage amount must be positive"
    ELSE "Ok"

CreatePolicyPanic(monthly_premium, coverage_amount) ==
    IF monthly_premium <= 0 THEN "Monthly premium must be positive"
    ELSE IF coverage_amount <= 0 THEN "Coverage amount must be positive"
    ELSE "Ok"

CreatePolicy(owner, name, coverage_type, monthly_premium, coverage_amount) ==
    /\ LET err == CreatePolicyPanic(monthly_premium, coverage_amount)
           next_id == nextPolicyId + 1
           args == <<owner, name, coverage_type, monthly_premium, coverage_amount>>
       IN IF err # "Ok"
          THEN /\ last' = Failed("create_policy", args, err, InsStore)
               /\ UNCHANGED <<policies, nextPolicyId, calls>>
          ELSE /\ next_id \in CreatedIds /\ calls \in CallBudget
               /\ policies' = MapSet(policies, next_id,
                      NewPolicy(next_id, owner, name, coverage_type, monthly_premium,
                                coverage_amount, now))
               /\ nextPolicyId' = next_id
               /\ calls' = calls + 1
               /\ last' = Call("create_policy", args, "Ok", next_id, <<>>,
                               <<Event("insure", "PolicyCreated", <<next_id, owner>>)>>,
                               InsStore)
    /\ UNCHANGED <<contract, now, premSchedules, nextPremSch>>

\* variant: the owner may pay the premium of a policy in any state
PayPremiumPanicAnyState(ps, caller, policy_id) ==
    IF policy_id \notin DOMAIN ps THEN "Policy not found"
    ELSE IF ps[policy_id].owner # caller THEN "Only the policy owner can pay premiums"
    ELSE "Ok"

PayPremiumPanic(ps, caller, policy_id) ==
    IF policy_id \notin DOMAIN ps THEN "Policy not found"
    ELSE IF ps[policy_id].owner # caller THEN "Only the policy owner can pay premiums"
    ELSE IF ~ps[policy_id].active THEN "Policy is not active"
    ELSE "Ok"

PremiumPaid(policy, current_time) ==
    [policy EXCEPT !.next_payment_date = current_time + PremiumPeriod]

PayPremium(caller, policy_id) ==
    /\ LET err == PayPremiumPanic(policies, caller, policy_id)
       IN IF err # "Ok"
          THEN /\ last' = Failed("pay_premium", <<caller, policy_id>>, err, InsStore)
               /\ UNCHANGED <<policies, calls>>
          ELSE /\ calls \in CallBudget
               /\ policies' = MapSet(policies, policy_id,
                                     PremiumPaid(policies[policy_id], now))
               /\ calls' = calls + 1
               /\ last' = Call("pay_premium", <<caller, policy_id>>, "Ok", TRUE, <<>>,
                               <<Event("insure", "PremiumPaid", <<policy_id, caller>>)>>,
                               InsStore)
    /\ UNCHANGED <<contract, now, nextPolicyId, premSchedules, nextPremSch>>

DeactivatePolicyPanic(ps, caller, policy_id) ==
    IF policy_id \notin DOMAIN ps THEN "Policy not found"
    ELSE IF ps[policy_id].owner # caller
         THEN "Only the policy owner can deactivate this policy"
    ELSE "Ok"

DeactivatePolicy(caller, policy_id) ==
    /\ LET err == DeactivatePolicyPanic(policies, caller, policy_id)
       IN IF err # "Ok"
          THEN /\ last' = Failed("deactivate_policy", <<caller, policy_id>>, err, InsStore)
               /\ UNCHANGED <<policies, calls>>
          ELSE /\ calls \in CallBudget
               /\ policies' = MapSet(policies, policy_id,
                                     [policies[policy_id] EXCEPT !.active = FALSE])
               /\ calls' = calls + 1
               /\ last' = Call("deactivate_policy", <<caller, policy_id>>, "Ok", TRUE, <<>>,
                               <<Event("insure", "PolicyDeactivated", <<policy_id, caller>>)>>,
                               InsStore)
    /\ UNCHANGED <<contract, now, nextPolicyId, premSchedules, nextPremSch>>

get_total_monthly_premium(owner) ==
    LET RECURSIVE SumPremiums(_)
        SumPremiums(ids) ==
            IF ids = {} THEN 0
            ELSE LET k == Min(ids)
                 IN policies[k].monthly_premium + SumPremiums(ids \ {k})
    IN SumPremiums({p \in DOMAIN policies :
                       policies[p].active /\ policies[p].owner = owner})

\* ------------------------------------------------------------------------
\* insurance: create_premium_schedule, modify_premium_schedule,
\* cancel_premium_schedule
\* ------------------------------------------------------------------------
NewPremiumSchedule(next_schedule_id, owner, policy_id, next_due, interval, current_time) ==
    [id |-> next_schedule_id, owner |-> owner, policy_id |-> policy_id,
     next_due |-> next_due, interval |-> interval, recurring |-> interval > 0,
     active |-> TRUE, created_at |-> current_time, last_executed |-> None,
     missed_count |-> 0]

CreatePremiumSchedulePanic(ps, owner, policy_id, next_due, current_time) ==
    IF policy_id \notin DOMAIN ps THEN "Policy not found"
    ELSE IF ps[policy_id].owner # owner
         THEN "Only the policy owner can create schedules"
    ELSE IF next_due <= current_time THEN "Next due date must be in the future"
    ELSE "Ok"

CreatePremiumSchedule(owner, policy_id, next_due, interval) ==
    /\ LET err == CreatePremiumSchedulePanic(policies, owner, policy_id, next_due, now)
           next_schedule_id == nextPremSch + 1
           args == <<owner, policy_id, next_due, interval>>
       IN IF err # "Ok"
          THEN /\ last' = Failed("create_premium_schedule", args, err, InsStore)
               /\ UNCHANGED <<policies, premSchedules, nextPremSch, calls>>
          ELSE /\ next_schedule_id <= MaxSchedules /\ calls \in CallBudget
               /\ premSchedules' = MapSet(premSchedules, next_schedule_id,
                      NewPremiumSchedule(next_schedule_id, owner, policy_id, next_due,
                                         interval, now))
               /\ nextPremSch' = next_schedule_id
               /\ policies' = MapSet(policies, policy_id,
                      [policies[policy_id] EXCEPT !.schedule_id = next_schedule_id])
               /\ calls' = calls + 1
               /\ last' = Call("create_premium_schedule", args, "Ok", next_schedule_id,
                               <<>>,
                               <<Event("insure", "ScheduleCreated",
                                       <<next_schedule_id, owner>>)>>,
                               InsStore)
    /\ UNCHANGED <<contract, now, nextPolicyId>>

\* the due time is validated before the schedule is looked up
ModifyPremiumSchedulePanic(ss, caller, schedule_id, next_due, current_time) ==
    IF next_due <= current_time THEN "Next due date must be in the future"
    ELSE IF schedule_id \notin DOMAIN ss THEN "Schedule not found"
    ELSE IF ss[schedule_id].owner # caller THEN "Only the schedule owner can modify it"
    ELSE "Ok"

PremiumModified(schedule, next_due, interval) ==
    [schedule EXCEPT !.next_due = next_due, !.interval = interval,
                     !.recurring = interval > 0]

ModifyPremiumSchedule(caller, schedule_id, next_due, interval) ==
    /\ LET err == ModifyPremiumSchedulePanic(premSchedules, caller, schedule_id,
                                             next_due, now)
           args == <<caller, schedule_id, next_due, interval>>
       IN IF err # "Ok"
          THEN /\ last' = Failed("modify_premium_schedule", args, err, InsStore)
               /\ UNCHANGED <<premSchedules, calls>>
          ELSE /\ calls \in CallBudget
               /\ premSchedules' = MapSet(premSchedules, schedule_id,
                      PremiumModified(premSchedules[schedule_id], next_due, interval))
               /\ calls' = calls + 1
               /\ last' = Call("modify_premium_schedule", args, "Ok", TRUE, <<>>,
                               <<Event("insure", "ScheduleModified",
                                       <<schedule_id, caller>>)>>,
                               InsStore)
    /\ UNCHANGED <<contract, now, policies, nextPolicyId, nextPremSch>>

CancelPremiumSchedulePanic(ss, caller, schedule_id) ==
    IF schedule_id \notin DOMAIN ss THEN "Schedule not found"
    ELSE IF ss[schedule_id].owner # caller THEN "Only the schedule owner can cancel it"
    ELSE "Ok"

PremiumCancelled(schedule) == [schedule EXCEPT !.active = FALSE]

CancelPremiumSchedule(caller, schedule_id) ==
    /\ LET err == CancelPremiumSchedulePanic(premSchedules, caller, schedule_id)
           args == <<caller, schedule_id>>
       IN IF err # "Ok"
          THEN /\ last' = Failed("cancel_premium_schedule", args, err, InsStore)
               /\ UNCHANGED <<premSchedules, calls>>
          ELSE /\ calls \in CallBudget
               /\ premSchedules' = MapSet(premSchedules, schedule_id,
                      PremiumCancelled(premSchedules[schedule_id]))
               /\ calls' = calls + 1
               /\ last' = Call("cancel_premium_schedule", args, "Ok", TRUE, <<>>,
                               <<Event("insure", "ScheduleCancelled",
                                       <<schedule_id, caller>>)>>,
                               InsStore)
    /\ UNCHANGED <<contract, now, policies, nextPolicyId, nextPremSch>>

\* ------------------------------------------------------------------------
\* insurance: execute_due_premium_schedules (the keeper sweep)
\* ------------------------------------------------------------------------
PremiumIsDue(schedule, current_time) ==
    schedule.active /\ schedule.next_due <= current_time

\* variant: the policy's active flag is not consulted
SweepPolicyWhateverState(ps, policy_id, current_time) ==
    IF policy_id \in DOMAIN ps
    THEN [policies |-> MapSet(ps, policy_id,
                              [ps[policy_id] EXCEPT
                                  !.next_payment_date = current_time + PremiumPeriod]),
          paidNow |-> TRUE]
    ELSE [policies |-> ps, paidNow |-> FALSE]

\* POLICIES after the sweep has handled the policy of one schedule
SweepPolicy(ps, policy_id, current_time) ==
    IF policy_id \in DOMAIN ps /\ ps[policy_id].active
    THEN [policies |-> MapSet(ps, policy_id,
                              [ps[policy_id] EXCEPT
                                  !.next_payment_date = current_time + PremiumPeriod]),
          paidNow |-> TRUE]
    ELSE [policies |-> ps, paidNow |-> FALSE]

RECURSIVE PremiumCatchUpLoop(_, _, _, _)
PremiumCatchUpLoop(next, missed, interval, current_time) ==
    IF next <= current_time
    THEN PremiumCatchUpLoop(next + interval, missed + 1, interval, current_time)
    ELSE [next |-> next, missed |-> missed]

PremiumCatchUp(schedule, current_time) ==
    PremiumCatchUpLoop(schedule.next_due + schedule.interval, 0, schedule.interval,
                       current_time)

PremiumAdvance(schedule, current_time) ==
    IF schedule.recurring /\ schedule.interval > 0
    THEN LET c == PremiumCatchUp(schedule, current_time)
         IN [schedule EXCEPT !.last_executed = current_time,
                             !.missed_count = schedule.missed_count + c.missed,
                             !.next_due = c.next]
    ELSE [schedule EXCEPT !.last_executed = current_time, !.active = FALSE]

PremiumMissedIn(schedule, current_time) ==
    IF schedule.recurring /\ schedule.interval > 0
    THEN PremiumCatchUp(schedule, current_time).missed ELSE 0

PremiumSweepStep(acc, snapshot, schedule_id, current_time) ==
    LET schedule == snapshot[schedule_id]
    IN IF ~PremiumIsDue(schedule, current_time) THEN acc
       ELSE LET p == SweepPolicy(acc.policies, schedule.policy_id, current_time)
                missed == PremiumMissedIn(schedule, current_time)
            IN [policies |-> p.policies,
                premSchedules |-> MapSet(acc.premSchedules, schedule_id,
                                         PremiumAdvance(schedule, current_time)),
                executed |-> Append(acc.executed, schedule_id),
                events |-> acc.events
                    \o (IF p.paidNow
                        THEN <<Event("insure", "PremiumPaid",
                                     <<schedule.policy_id,
                                       acc.policies[schedule.policy_id].owner>>)>>
                        ELSE <<>>)
                    \o (IF missed > 0
                        THEN <<Event("insure", "ScheduleMissed", <<schedule_id, missed>>)>>
                        ELSE <<>>)
                    \o <<Event("insure", "ScheduleExecuted", schedule_id)>>]

RECURSIVE PremiumSweepLoop(_, _, _, _)
PremiumSweepLoop(acc, snapshot, keys, current_time) ==
    IF keys = {} THEN acc
    ELSE LET k == Min(keys)
         IN PremiumSweepLoop(PremiumSweepStep(acc, snapshot, k, current_time),
                             snapshot, keys \ {k}, current_time)

PremiumSweep(ps, ss, current_time) ==
    PremiumSweepLoop([policies |-> ps, premSchedules |-> ss,
                      executed |-> <<>>, events |-> <<>>],
                     ss, DOMAIN ss, current_time)

ExecuteDuePremiumSchedules ==
    /\ LET r == PremiumSweep(policies, premSchedules, now)
       IN /\ r.executed # <<>> => calls \in CallBudget
          /\ policies' = r.policies
          /\ premSchedules' = r.premSchedules
          /\ calls' = IF r.executed # <<>> THEN calls + 1 ELSE calls
          /\ last' = Call("execute_due_premium_schedules", <<>>, "Ok", None,
                          r.executed, r.events, InsStore)
    /\ UNCHANGED <<contract, now, nextPolicyId, nextPremSch>>

\* ------------------------------------------------------------------------
\* The environment: the host hands the result back, the ledger clock advances
\* ------------------------------------------------------------------------
\* the invocation has returned; the contract accepts the next one
Return ==
    /\ ~Idle
    /\ last' = NoCall
    /\ UNCHANGED <<contract, now, billVars, insVars, calls, linked>>

Tick ==
    /\ Idle
    /\ now < MaxTime
    /\ now' = now + 1
    /\ UNCHANGED <<contract, billVars, insVars, last, calls, linked>>

Init ==
    /\ contract \in {"bill", "insurance"}
    /\ now = 0
    /\ bills = EmptyMap
    /\ nextId = 0
    /\ schedules = EmptyMap
    /\ nextSch = 0
    /\ policies = EmptyMap
    /\ nextPolicyId = 0
    /\ premSchedules = EmptyMap
    /\ nextPremSch = 0
    /\ last = NoCall
    /\ calls = 0
    /\ linked = EmptyMap

\* an invocation is accepted by the deployed contract once the previous one returned
BillCall == contract = "bill" /\ Idle
InsuranceCall == contract = "insurance" /\ Idle

Next ==
    \/ Tick
    \/ Return
    \/ BillCall /\ UNCHANGED insVars
       /\ \E o \in BillOwners, n \in Names, d \in DueDates, k \in BillInputs :
             CreateBill(o, n, k[1], d, k[2], k[3])
    \/ BillCall /\ UNCHANGED insVars
       /\ \E c \in Owners, b \in BillIdInputs : PayBill(c, b)
    \/ BillCall /\ UNCHANGED insVars
       /\ \E b \in BillIdInputs : CancelBill(b)
    \/ BillCall /\ UNCHANGED insVars
       /\ \E k \in ScheduleCalls(BillIdInputs) : CreateSchedule(k[1], k[2], k[3], k[4])
    \/ BillCall /\ UNCHANGED insVars
       /\ \E k \in ScheduleCalls(ScheduleIdInputs) :
             ModifySchedule(k[1], k[2], k[3], k[4])
    \/ BillCall /\ UNCHANGED insVars
       /\ \E c \in Owners, sid \in ScheduleIdInputs : CancelSchedule(c, sid)
    \/ BillCall /\ UNCHANGED insVars
       /\ ExecuteDueSchedules
    \/ InsuranceCall /\ UNCHANGED <<billVars, linked>>
       /\ \E o \in BillOwners, n \in Names, t \in CoverageTypes, k \in PolicyInputs :
             CreatePolicy(o, n, t, k[1], k[2])
    \/ InsuranceCall /\ UNCHANGED <<billVars, linked>>
       /\ \E c \in Owners, p \in PolicyIdInputs : PayPremium(c, p)
    \/ InsuranceCall /\ UNCHANGED <<billVars, linked>>
       /\ \E c \in Owners, p \in PolicyIdInputs : DeactivatePolicy(c, p)
    \/ InsuranceCall /\ UNCHANGED <<billVars, linked>>
       /\ \E k \in ScheduleCalls(PolicyIdInputs) :
             CreatePremiumSchedule(k[1], k[2], k[3], k[4])
    \/ InsuranceCall /\ UNCHANGED <<billVars, linked>>
       /\ \E k \in ScheduleCalls(PremScheduleIdInputs) :
             ModifyPremiumSchedule(k[1], k[2], k[3], k[4])
    \/ InsuranceCall /\ UNCHANGED <<billVars, linked>>
       /\ \E c \in Owners, sid \in PremScheduleIdInputs : CancelPremiumSchedule(c, sid)
    \/ InsuranceCall /\ UNCHANGED <<billVars, linked>>
       /\ ExecuteDuePremiumSchedules

Spec == Init /\ [][Next]_vars

\* ------------------------------------------------------------------------
\* The read-only entry points, applied to the stores a contract can hold
\* ------------------------------------------------------------------------
GetTotalUnpaid(owner) ==
    /\ last' = Call("get_total_unpaid", <<owner>>, "Ok", get_total_unpaid(owner),
                    <<>>, <<>>, BillStore)
    /\ UNCHANGED <<contract, now, billVars, insVars, calls, linked>>

GetTotalMonthlyPremium(owner) ==
    /\ last' = Call("get_total_monthly_premium", <<owner>>, "Ok",
                    get_total_monthly_premium(owner), <<>>, <<>>, InsStore)
    /\ UNCHANGED <<contract, now, billVars, insVars, calls, linked>>

\* a bill as create_bill stores it and pay_bill leaves it, at clock value 0
StoredBill(id, owner, amount, paid) ==
    [NewBill(id, owner, "rent", amount, 2, FALSE, 0, 0)
        EXCEPT !.paid = paid, !.paid_at = IF paid THEN 0 ELSE None]

\* a policy as create_policy stores it and deactivate_policy leaves it
StoredPolicy(id, owner, monthly_premium, active) ==
    [NewPolicy(id, owner, "rent", "health", monthly_premium, 2, 0)
        EXCEPT !.active = active]

\* amounts and premiums of the stored records
Amounts == {1, 2}

\* the stores left by up to MaxBills creations, by two owners, followed by
\* payments and cancellations (bills) or deactivations (policies)
QueryInit ==
    /\ contract \in {"bill", "insurance"}
    /\ now = 0
    /\ schedules = EmptyMap /\ nextSch = 0
    /\ premSchedules = EmptyMap /\ nextPremSch = 0
    /\ last = NoCall /\ calls = 0 /\ linked = EmptyMap
    /\ IF contract = "bill"
       THEN /\ policies = EmptyMap /\ nextPolicyId = 0
            /\ nextId = MaxBills
            /\ \E ids \in SUBSET (1..MaxBills) :
                  \E shape \in [ids -> Owners \X Amounts \X BOOLEAN] :
                      bills = [b \in ids |->
                                  StoredBill(b, shape[b][1], shape[b][2], shape[b][3])]
       ELSE /\ bills = EmptyMap /\ nextId = 0
            /\ \E n \in 0..MaxBills :
                  /\ nextPolicyId = n
                  /\ \E shape \in [1..n -> Owners \X Amounts \X BOOLEAN] :
                        policies = [p \in 1..n |->
                                       StoredPolicy(p, shape[p][1], shape[p][2],
                                                    shape[p][3])]

QueryNext ==
    \/ Return
    \/ BillCall /\ \E o \in Owners : GetTotalUnpaid(o)
    \/ InsuranceCall /\ \E o \in Owners : GetTotalMonthlyPremium(o)

QuerySpec == QueryInit /\ [][QueryNext]_vars

\* ------------------------------------------------------------------------
\* Payments and the list of unpaid bills, over the stores of two owners
\* ------------------------------------------------------------------------
GetUnpaidBills(owner) ==
    /\ last' = Call("get_unpaid_bills", <<owner>>, "Ok", get_unpaid_bills(bills, owner),
                    <<>>, <<>>, BillStore)
    /\ UNCHANGED <<contract, now, billVars, insVars, calls, linked>>

\* a bill as create_bill stores it and pay_bill or a cancelled schedule of it
\* leaves it, at clock value 0
ListedBill(id, owner, recurring, paid) ==
    [NewBill(id, owner, "rent", id, 2, recurring, IF recurring THEN 1 ELSE 0, 0)
        EXCEPT !.paid = paid, !.paid_at = IF paid THEN 0 ELSE None]

\* the stores left by up to MaxBills creations by two owners, followed by
\* payments and cancellations
ListInit ==
    /\ contract = "bill"
    /\ now = 0
    /\ schedules = EmptyMap /\ nextSch = 0
    /\ policies = EmptyMap /\ nextPolicyId = 0
    /\ premSchedules = EmptyMap /\ nextPremSch = 0
    /\ last = NoCall /\ calls = 0 /\ linked = EmptyMap
    /\ \E n \in 1..MaxBills :
          /\ nextId = n
          /\ \E ids \in SUBSET (1..n) :
                \E shape \in [ids -> Owners \X BOOLEAN \X BOOLEAN] :
                    bills = [b \in ids |->
                                ListedBill(b, shape[b][1], shape[b][2], shape[b][3])]

ListNext ==
    \/ Return
    \/ BillCall /\ UNCHANGED insVars
       /\ \E o \in Owners : GetUnpaidBills(o)
    \/ BillCall /\ UNCHANGED insVars
       /\ \E c \in Owners, b \in BillIdInputs : PayBill(c, b)

ListSpec == ListInit /\ [][ListNext]_vars

\* ------------------------------------------------------------------------
\* Payments and sweeps over several bills with schedules
\* ------------------------------------------------------------------------
\* the id a bill carries after create_schedule ran once for each schedule id,
\* in order, for the bill that link names: the last one created for it
CarriedAfterLinking(link, b) ==
    LET mine == {s \in DOMAIN link : link[s] = b}
    IN IF mine = {} THEN None ELSE CHOOSE s \in mine : \A t \in mine : t <= s

\* the store left at clock value 0 by MaxSchedules calls of create_bill by one
\* owner followed by MaxSchedules calls of create_schedule with next_due 1
RaceInit ==
    /\ contract = "bill"
    /\ now = 0
    /\ policies = EmptyMap /\ nextPolicyId = 0
    /\ premSchedules = EmptyMap /\ nextPremSch = 0
    /\ last = NoCall /\ calls = 0
    /\ nextId = MaxSchedules /\ nextSch = MaxSchedules
    /\ \E rec \in [1..MaxSchedules -> BOOLEAN],
          link \in [1..MaxSchedules -> 1..MaxSchedules],
          iv \in [1..MaxSchedules -> Intervals] :
          /\ linked = link
          /\ schedules = [s \in 1..MaxSchedules |-> NewSchedule(s, "alice", 1, iv[s], 0)]
          /\ bills = [b \in 1..MaxSchedules |->
                         [NewBill(b, "alice", "rent", b, 2, rec[b],
                                  IF rec[b] THEN 1 ELSE 0, 0)
                             EXCEPT !.schedule_id = CarriedAfterLinking(link, b)]]

RaceNext ==
    \/ Tick
    \/ Return
    \/ BillCall /\ UNCHANGED insVars
       /\ \E c \in Owners, b \in BillIdInputs : PayBill(c, b)
    \/ BillCall /\ UNCHANGED insVars
       /\ ExecuteDueSchedules

RaceSpec == RaceInit /\ [][RaceNext]_vars

\* ------------------------------------------------------------------------
\* The sweep's arithmetic in words of fixed width
\* ------------------------------------------------------------------------
\* next_due, interval and the clock are u64 and missed_count is u32; the
\* widths are scaled down so that the ranges can be enumerated
MaxU64 == 7
MaxU32 == 3

\* the catch-up loop on operands that wrap around
RECURSIVE WrapCatchUpLoop(_, _, _, _)
WrapCatchUpLoop(next, missed, interval, current_time) ==
    IF next <= current_time
    THEN WrapCatchUpLoop((next + interval) % (MaxU64 + 1), (missed + 1) % (MaxU32 + 1),
                         interval, current_time)
    ELSE [next |-> next, missed |-> missed]

WrapCatchUp(schedule, current_time) ==
    WrapCatchUpLoop((schedule.next_due + schedule.interval) % (MaxU64 + 1), 0,
                    schedule.interval, current_time)

WrapAdvance(schedule, current_time) ==
    IF schedule.recurring /\ schedule.interval > 0
    THEN LET c == WrapCatchUp(schedule, current_time)
         IN [schedule EXCEPT !.last_executed = current_time,
                             !.missed_count =
                                 (schedule.missed_count + c.missed) % (MaxU32 + 1),
                             !.next_due = c.next]
    ELSE [schedule EXCEPT !.last_executed = current_time, !.active = FALSE]

WrapMissedIn(schedule, current_time) ==
    IF schedule.recurring /\ schedule.interval > 0
    THEN WrapCatchUp(schedule, current_time).missed ELSE 0

\* the body of the loop in a build whose additions wrap around
WrapExecuteSchedule(acc, schedule_id, schedule, current_time) ==
    LET bid == find_bill_by_schedule(acc.bills, schedule_id)
        b == SweepBill(acc.bills, acc.nextId, bid, current_time)
        missed == WrapMissedIn(schedule, current_time)
    IN [bills |-> b.bills,
        nextId |-> b.nextId,
        schedules |-> MapSet(acc.schedules, schedule_id,
                             WrapAdvance(schedule, current_time)),
        executed |-> Append(acc.executed, schedule_id),
        events |-> acc.events
            \o (IF b.paidNow
                THEN <<Event("bill", "Paid", <<bid, schedule.owner>>)>>
                ELSE <<>>)
            \o (IF missed > 0
                THEN <<Event("schedule", "Missed", <<schedule_id, missed>>)>>
                ELSE <<>>)
            \o <<Event("schedule", "Executed", schedule_id)>>]

RECURSIVE WrapSweepLoop(_, _, _, _)
WrapSweepLoop(acc, snapshot, keys, current_time) ==
    IF keys = {} THEN acc
    ELSE LET k == Min(keys)
             step == IF ~IsDue(snapshot[k], current_time) THEN acc
                     ELSE WrapExecuteSchedule(acc, k, snapshot[k], current_time)
         IN WrapSweepLoop(step, snapshot, keys \ {k}, current_time)

WrapSweep(bs, nid, ss, current_time) ==
    WrapSweepLoop([bills |-> bs, nextId |-> nid, schedules |-> ss,
                   executed |-> <<>>, events |-> <<>>],
                  ss, DOMAIN ss, current_time)

\* an addition of the loop body leaves the range of its type for schedule s:
\* next_due + interval or a later next += interval (the sums only grow, so
\* the last one is the largest), missed += 1, or missed_count += missed
AdditionOverflows(schedule, current_time) ==
    /\ IsDue(schedule, current_time)
    /\ schedule.recurring /\ schedule.interval > 0
    /\ LET c == CatchUp(schedule, current_time)
       IN \/ c.next > MaxU64
          \/ c.missed > MaxU32
          \/ schedule.missed_count + c.missed > MaxU32

SweepOverflows(ss, current_time) ==
    \E s \in DOMAIN ss : AdditionOverflows(ss[s], current_time)

\* the sweep in a build that checks its additions: the invocation aborts and
\* nothing is committed
ExecuteDueSchedulesAbort ==
    /\ SweepOverflows(schedules, now)
    /\ last' = Failed("execute_due_schedules", <<>>, "attempt to add with overflow",
                      BillStore)
    /\ UNCHANGED <<contract, now, billVars, calls, linked>>

\* the sweep in a build whose additions wrap around
ExecuteDueSchedulesWrap ==
    /\ SweepOverflows(schedules, now)
    /\ LET r == WrapSweep(bills, nextId, schedules, now)
       IN /\ r.nextId <= MaxBills
          /\ calls \in CallBudget
          /\ bills' = r.bills
          /\ nextId' = r.nextId
          /\ schedules' = r.schedules
          /\ calls' = calls + 1
          /\ last' = Call("execute_due_schedules", <<>>, "Ok", None, r.executed,
                          r.events, BillStore)
    /\ UNCHANGED <<contract, now, nextSch, linked>>

\* the store left at clock value 0 by create_bill for a one-time bill and
\* create_schedule for it, with any next_due > 0 and any interval of the type
WidthInit ==
    /\ contract = "bill"
    /\ now = 0
    /\ policies = EmptyMap /\ nextPolicyId = 0
    /\ premSchedules = EmptyMap /\ nextPremSch = 0
    /\ last = NoCall /\ calls = 0
    /\ nextId = 1 /\ nextSch = 1
    /\ linked = MapSet(EmptyMap, 1, 1)
    /\ bills = MapSet(EmptyMap, 1,
                      [NewBill(1, "alice", "rent", 1, 2, FALSE, 0, 0)
                          EXCEPT !.schedule_id = 1])
    /\ \E next_due \in 1..MaxU64, interval \in 0..MaxU64 :
          /\ CreateScheduleError(bills, "alice", 1, next_due, 0) = "Ok"
          /\ schedules = MapSet(EmptyMap, 1, NewSchedule(1, "alice", next_due, interval, 0))

WidthNext ==
    \/ Tick
    \/ Return
    \/ BillCall /\ UNCHANGED insVars
       /\ ~SweepOverflows(schedules, now) /\ ExecuteDueSchedules
    \/ BillCall /\ UNCHANGED insVars
       /\ ExecuteDueSchedulesAbort
    \/ BillCall /\ UNCHANGED insVars
       /\ ExecuteDueSchedulesWrap

WidthSpec == WidthInit /\ [][WidthNext]_vars

\* ------------------------------------------------------------------------
\* Two owners side by side
\* ------------------------------------------------------------------------
\* the store left at clock value 0 by one create_bill (create_policy) of
\* alice followed by one of bob
OwnerInit ==
    /\ contract \in {"bill", "insurance"}
    /\ now = 0
    /\ schedules = EmptyMap /\ nextSch = 0
    /\ premSchedules = EmptyMap /\ nextPremSch = 0
    /\ last = NoCall /\ calls = 0 /\ linked = EmptyMap
    /\ IF contract = "bill"
       THEN /\ policies = EmptyMap /\ nextPolicyId = 0
            /\ nextId = 2
            /\ \E rec \in [1..2 -> BOOLEAN] :
                  bills = [b \in 1..2 |->
                              NewBill(b, IF b = 1 THEN "alice" ELSE "bob", "rent", b, 2,
                                      rec[b], IF rec[b] THEN 1 ELSE 0, 0)]
       ELSE /\ bills = EmptyMap /\ nextId = 0
            /\ nextPolicyId = 2
            /\ policies = [p \in 1..2 |->
                              NewPolicy(p, IF p = 1 THEN "alice" ELSE "bob", "rent",
                                        "health", p, 2, 0)]

\* the entry points that require the authorization of a caller, at one
\* clock value
OwnerNext ==
    \/ Return
    \/ BillCall /\ UNCHANGED insVars
       /\ \E o \in Owners, n \in Names, d \in DueDates, k \in BillInputs :
             CreateBill(o, n, k[1], d, k[2], k[3])
    \/ BillCall /\ UNCHANGED insVars
       /\ \E c \in Owners, b \in BillIdInputs : PayBill(c, b)
    \/ BillCall /\ UNCHANGED insVars
       /\ \E k \in ScheduleCalls(BillIdInputs) : CreateSchedule(k[1], k[2], k[3], k[4])
    \/ BillCall /\ UNCHANGED insVars
       /\ \E k \in ScheduleCalls(ScheduleIdInputs) :
             ModifySchedule(k[1], k[2], k[3], k[4])
    \/ BillCall /\ UNCHANGED insVars
       /\ \E c \in Owners, sid \in ScheduleIdInputs : CancelSchedule(c, sid)
    \/ InsuranceCall /\ UNCHANGED <<billVars, linked>>
       /\ \E o \in Owners, n \in Names, t \in CoverageTypes, k \in PolicyInputs :
             CreatePolicy(o, n, t, k[1], k[2])
    \/ InsuranceCall /\ UNCHANGED <<billVars, linked>>
       /\ \E c \in Owners, p \in PolicyIdInputs : PayPremium(c, p)
    \/ InsuranceCall /\ UNCHANGED <<billVars, linked>>
       /\ \E c \in Owners, p \in PolicyIdInputs : DeactivatePolicy(c, p)
    \/ InsuranceCall /\ UNCHANGED <<billVars, linked>>
       /\ \E k \in ScheduleCalls(PolicyIdInputs) :
             CreatePremiumSchedule(k[1], k[2], k[3], k[4])
    \/ InsuranceCall /\ UNCHANGED <<billVars, linked>>
       /\ \E k \in ScheduleCalls(PremScheduleIdInputs) :
             ModifyPremiumSchedule(k[1], k[2], k[3], k[4])
    \/ InsuranceCall /\ UNCHANGED <<billVars, linked>>
       /\ \E c \in Owners, sid \in PremScheduleIdInputs : CancelPremiumSchedule(c, sid)

OwnerSpec == OwnerInit /\ [][OwnerNext]_vars

\* ------------------------------------------------------------------------
\* The keeper: a clock that keeps advancing and sweeps that keep coming
\* ------------------------------------------------------------------------
\* the store left at clock value 0 by one create_bill (create_policy) and
\* MaxSchedules schedule creations for it with next_due 1
LiveInit ==
    /\ contract \in {"bill", "insurance"}
    /\ now = 0
    /\ last = NoCall /\ calls = 0
    /\ \E iv \in [1..MaxSchedules -> Intervals] :
          IF contract = "bill"
          THEN /\ policies = EmptyMap /\ nextPolicyId = 0
               /\ premSchedules = EmptyMap /\ nextPremSch = 0
               /\ nextId = 1 /\ nextSch = MaxSchedules
               /\ linked = [s \in 1..MaxSchedules |-> 1]
               /\ schedules = [s \in 1..MaxSchedules |->
                                  NewSchedule(s, "alice", 1, iv[s], 0)]
               /\ \E rec \in BOOLEAN :
                     bills = MapSet(EmptyMap, 1,
                                    [NewBill(1, "alice", "rent", 1, 2, rec,
                                             IF rec THEN 1 ELSE 0, 0)
                                        EXCEPT !.schedule_id = MaxSchedules])
          ELSE /\ bills = EmptyMap /\ nextId = 0
               /\ schedules = EmptyMap /\ nextSch = 0
               /\ linked = EmptyMap
               /\ nextPolicyId = 1 /\ nextPremSch = MaxSchedules
               /\ premSchedules = [s \in 1..MaxSchedules |->
                                      NewPremiumSchedule(s, "alice", 1, 1, iv[s], 0)]
               /\ policies = MapSet(EmptyMap, 1,
                                    [NewPolicy(1, "alice", "rent", "health", 1, 2, 0)
                                        EXCEPT !.schedule_id = MaxSchedules])

\* anyone may invoke the sweep
KeeperBill == BillCall /\ UNCHANGED insVars /\ ExecuteDueSchedules
KeeperPremium ==
    InsuranceCall /\ UNCHANGED <<billVars, linked>> /\ ExecuteDuePremiumSchedules

\* no schedule is cancelled or modified
LiveNext ==
    \/ Tick
    \/ Return
    \/ KeeperBill
    \/ KeeperPremium

\* an invocation returns; the clock keeps advancing and the sweep keeps being
\* invoked (both are disabled while an invocation is being recorded, hence
\* strong fairness)
LiveSpec ==
    /\ LiveInit /\ [][LiveNext]_vars
    /\ WF_vars(Return)
    /\ SF_vars(Tick)
    /\ SF_vars(KeeperBill)
    /\ SF_vars(KeeperPremium)

\* ------------------------------------------------------------------------
\* The catch-up loop, one iteration at a time
\* ------------------------------------------------------------------------
\* While the sweep runs for schedule 1, last holds the invocation in progress:
\* res is "CatchUp", args names the build (additions checked or wrapping; the
\* sources do not fix it) and val holds the locals next and missed.
Builds == {"checked", "wrapping"}
InCatchUp == last.op = "execute_due_schedules" /\ last.res = "CatchUp"
Running(build, next, missed, pre) ==
    Call("execute_due_schedules", <<build>>, "CatchUp",
         [next |-> next, missed |-> missed], <<>>, <<>>, pre)

\* let mut missed = 0; let mut next = schedule.next_due + schedule.interval;
CatchUpEnter ==
    /\ Idle
    /\ 1 \in DOMAIN schedules
    /\ IsDue(schedules[1], now)
    /\ schedules[1].recurring /\ schedules[1].interval > 0
    /\ \E build \in Builds :
          LET sum == schedules[1].next_due + schedules[1].interval
          IN last' = IF build = "checked" /\ sum > MaxU64
                     THEN Failed("execute_due_schedules", <<build>>,
                                 "attempt to add with overflow", BillStore)
                     ELSE Running(build, sum % (MaxU64 + 1), 0, BillStore)
    /\ UNCHANGED <<contract, now, billVars, insVars, calls, linked>>

\* while next <= current_time { missed += 1; next += schedule.interval; }
CatchUpIterate ==
    /\ InCatchUp
    /\ last.val.next <= now
    /\ LET build == last.args[1]
           missed == last.val.missed + 1
           next == last.val.next + schedules[1].interval
       IN last' = IF build = "checked" /\ (missed > MaxU32 \/ next > MaxU64)
                  THEN Failed("execute_due_schedules", <<build>>,
                              "attempt to add with overflow", BillStore)
                  ELSE Running(build, next % (MaxU64 + 1), missed % (MaxU32 + 1),
                               BillStore)
    /\ UNCHANGED <<contract, now, billVars, insVars, calls, linked>>

\* the loop is left: missed_count and next_due are updated, the schedule and
\* the bills are stored and the sweep returns
CatchUpWriteBack ==
    /\ InCatchUp
    /\ last.val.next > now
    /\ LET build == last.args[1]
           missed == last.val.missed
           count == schedules[1].missed_count + missed
           bid == find_bill_by_schedule(bills, 1)
           b == SweepBill(bills, nextId, bid, now)
       IN IF build = "checked" /\ count > MaxU32
          THEN /\ last' = Failed("execute_due_schedules", <<build>>,
                                 "attempt to add with overflow", BillStore)
               /\ UNCHANGED <<bills, nextId, schedules>>
          ELSE /\ b.nextId <= MaxBills
               /\ bills' = b.bills
               /\ nextId' = b.nextId
               /\ schedules' =
                      MapSet(schedules, 1,
                             [schedules[1] EXCEPT !.last_executed = now,
                                                  !.missed_count = count % (MaxU32 + 1),
                                                  !.next_due = last.val.next])
               /\ last' = Call("execute_due_schedules", <<build>>, "Ok", None, <<1>>,
                               (IF b.paidNow
                                THEN <<Event("bill", "Paid", <<bid, schedules[1].owner>>)>>
                                ELSE <<>>)
                               \o (IF missed > 0
                                   THEN <<Event("schedule", "Missed", <<1, missed>>)>>
                                   ELSE <<>>)
                               \o <<Event("schedule", "Executed", 1)>>,
                               BillStore)
    /\ UNCHANGED <<contract, now, nextSch, insVars, calls, linked>>

\* the invocation has ended, by returning or by aborting
SweepReturn == ~InCatchUp /\ Return

\* the store left at clock value 0 by create_bill for a one-time bill and
\* create_schedule for it, with any next_due and interval of the type, seen
\* at any clock value of the type from which the schedule is due
LoopInit ==
    /\ contract = "bill"
    /\ now \in 1..MaxU64
    /\ policies = EmptyMap /\ nextPolicyId = 0
    /\ premSchedules = EmptyMap /\ nextPremSch = 0
    /\ last = NoCall /\ calls = 0
    /\ nextId = 1 /\ nextSch = 1
    /\ linked = MapSet(EmptyMap, 1, 1)
    /\ bills = MapSet(EmptyMap, 1,
                      [NewBill(1, "alice", "rent", 1, 2, FALSE, 0, 0)
                          EXCEPT !.schedule_id = 1])
    /\ \E next_due \in 1..MaxU64, interval \in 1..MaxU64 :
          /\ next_due <= now
          /\ CreateScheduleError(bills, "alice", 1, next_due, 0) = "Ok"
          /\ schedules = MapSet(EmptyMap, 1, NewSchedule(1, "alice", next_due, interval, 0))

LoopNext ==
    \/ CatchUpEnter
    \/ CatchUpIterate
    \/ CatchUpWriteBack
    \/ SweepReturn

\* a running invocation takes its next step
LoopSpec ==
    /\ LoopInit /\ [][LoopNext]_vars
    /\ WF_vars(CatchUpIterate)
    /\ WF_vars(CatchUpWriteBack)
    /\ WF_vars(SweepReturn)

\* ------------------------------------------------------------------------
\* Properties of the sweeps, stated on the record of the invocation that has
\* just returned: last.pre is the store it started from, the variables hold
\* the store it left, and now is the clock value it ran at
\* ------------------------------------------------------------------------
BillSweepDone == last.op = "execute_due_schedules"
PremiumSweepDone == last.op = "execute_due_premium_schedules"

\* the schedules a sweep at current_time has to select from the store ss
DueIds(ss, current_time) ==
    {s \in DOMAIN ss : ss[s].active /\ ss[s].next_due <= current_time}

\* the list names every member of the set once and nothing else
ListsExactly(list, ids) ==
    /\ Len(list) = Cardinality(ids)
    /\ {list[i] : i \in 1..Len(list)} = ids

\* the schedules before and after the sweep that has just returned
SweptFrom == IF BillSweepDone THEN last.pre.schedules ELSE last.pre.premSchedules
SweptTo == IF BillSweepDone THEN schedules ELSE premSchedules
SweepDone == BillSweepDone \/ PremiumSweepDone

\* C1: the sweep is idempotent per tick.  In the state a sweep leaves, a second
\* sweep at the same clock value returns the empty list, publishes nothing and
\* leaves both stores and both id counters as they are (bill and insurance).
C1_SweepIdempotent ==
    /\ BillSweepDone =>
          LET r == Sweep(bills, nextId, schedules, now)
          IN /\ r.executed = <<>> /\ r.events = <<>>
             /\ r.bills = bills /\ r.nextId = nextId
             /\ r.schedules = schedules
             /\ nextSch = last.pre.nextSch
    /\ PremiumSweepDone =>
          LET r == PremiumSweep(policies, premSchedules, now)
          IN /\ r.executed = <<>> /\ r.events = <<>>
             /\ r.policies = policies
             /\ r.premSchedules = premSchedules
             /\ nextPolicyId = last.pre.nextPolicyId
             /\ nextPremSch = last.pre.nextPremSch

\* a second sweep has returned at the clock value at which a first one had
\* executed a recurring schedule that is still active
C1_Witness ==
    /\ BillSweepDone
    /\ last.executed = <<>>
    /\ \E s \in DOMAIN schedules :
          /\ schedules[s].active /\ schedules[s].interval > 0
          /\ schedules[s].last_executed = now
    /\ BillStore = last.pre

\* C2: a sweep returns exactly the ids of the schedules that were active with
\* next_due <= now in the store it started from, each of them once.
C2_SweepReturnsDueIds ==
    SweepDone => ListsExactly(last.executed, DueIds(SweptFrom, now))

\* a sweep has returned one schedule and passed over an active one that was
\* not due yet
C2_Witness ==
    /\ BillSweepDone
    /\ Len(last.executed) = 1
    /\ \E s \in DOMAIN last.pre.schedules :
          /\ last.pre.schedules[s].active
          /\ last.pre.schedules[s].next_due > now
          /\ last.executed[1] # s

\* C3: a recurring schedule with next_due = d <= now and interval = i > 0 leaves
\* the sweep active and with the smallest next_due of the form d + k*i, k >= 1,
\* that is greater than now.
C3_NextDueIsFirstBoundaryAfterNow ==
    SweepDone =>
        \A s \in DueIds(SweptFrom, now) :
            LET d == SweptFrom[s].next_due
                i == SweptFrom[s].interval
                n == SweptTo[s].next_due
            IN SweptFrom[s].recurring /\ i > 0 =>
                  /\ SweptTo[s].active
                  /\ n > now /\ n - i <= now
                  /\ n >= d + i
                  /\ (n - d) % i = 0
                  /\ n % i = d % i

\* a sweep has moved a recurring schedule more than one interval ahead
C3_Witness ==
    /\ BillSweepDone
    /\ \E s \in DueIds(last.pre.schedules, now) :
          /\ last.pre.schedules[s].interval > 0
          /\ schedules[s].next_due
                 >= last.pre.schedules[s].next_due + 2 * last.pre.schedules[s].interval

\* C4: for a recurring schedule with next_due = d <= now and interval = i > 0
\* one sweep at now adds floor((now - d) / i) to missed_count: nothing when
\* now < d + i.
C4_MissedCountIncrement ==
    SweepDone =>
        \A s \in DueIds(SweptFrom, now) :
            LET d == SweptFrom[s].next_due
                i == SweptFrom[s].interval
                added == SweptTo[s].missed_count - SweptFrom[s].missed_count
            IN SweptFrom[s].recurring /\ i > 0 =>
                  /\ added = (now - d) \div i
                  /\ added = Cardinality({k \in 1..now : d + k * i <= now})
                  /\ now < d + i => added = 0

\* a sweep has counted a missed interval for a schedule
C4_Witness ==
    /\ BillSweepDone
    /\ \E s \in DueIds(last.pre.schedules, now) :
          /\ last.pre.schedules[s].interval > 0
          /\ schedules[s].missed_count > last.pre.schedules[s].missed_count

\* C5: a one-time schedule (interval = 0) executed by a sweep is inactive when
\* that sweep returns, and no later sweep returns it: a sweep returns no
\* schedule that was inactive when it started, and no invocation of either
\* contract leaves active a schedule that was inactive when it started.
C5_OneTimeScheduleRunsOnce ==
    /\ SweepDone =>
          /\ \A i \in 1..Len(last.executed) :
                LET s == last.executed[i]
                IN /\ SweptFrom[s].active
                   /\ SweptFrom[s].interval = 0 => ~SweptTo[s].active
          /\ \A s \in DOMAIN SweptFrom :
                ~SweptFrom[s].active => s \in DOMAIN SweptTo /\ ~SweptTo[s].active
    /\ (contract = "bill" /\ ~Idle) =>
          \A s \in DOMAIN last.pre.schedules :
              ~last.pre.schedules[s].active
                  => s \in DOMAIN schedules /\ ~schedules[s].active
    /\ (contract = "insurance" /\ ~Idle) =>
          \A s \in DOMAIN last.pre.premSchedules :
              ~last.pre.premSchedules[s].active
                  => s \in DOMAIN premSchedules /\ ~premSchedules[s].active

\* a sweep at a later clock value has passed over a one-time schedule that an
\* earlier sweep had executed
C5_Witness ==
    /\ BillSweepDone
    /\ \E s \in DOMAIN last.pre.schedules :
          /\ last.pre.schedules[s].interval = 0
          /\ ~last.pre.schedules[s].active
          /\ last.pre.schedules[s].last_executed # None
          /\ last.pre.schedules[s].last_executed < now
          /\ \A i \in 1..Len(last.executed) : last.executed[i] # s
          /\ schedules[s] = last.pre.schedules[s]

\* ------------------------------------------------------------------------
\* Properties of what the bill sweep does to the bills
\* ------------------------------------------------------------------------
\* the bills of the store bs that carry the id of schedule s
Carriers(bs, s) == {b \in DOMAIN bs : bs[b].schedule_id = s}

\* the sweep that has just returned executed schedule s
Returned(s) == \E i \in 1..Len(last.executed) : last.executed[i] = s

\* schedule s left the sweep executed at now: moved ahead when it recurs,
\* switched off when it does not
ExecutedAtNow(s) ==
    /\ Returned(s)
    /\ schedules[s].last_executed = now
    /\ IF last.pre.schedules[s].recurring /\ last.pre.schedules[s].interval > 0
       THEN /\ schedules[s].active
            /\ schedules[s].next_due > now
            /\ schedules[s].next_due > last.pre.schedules[s].next_due
       ELSE ~schedules[s].active

\* the bill the schedule was created for is no longer stored
LinkedBillRemoved(s) == s \in DOMAIN linked /\ linked[s] \notin DOMAIN last.pre.bills

\* C6 as stated: when the bill a due active schedule was created for has been
\* removed by cancel_bill, the sweep succeeds, fulfils nothing for that
\* schedule (no bill carrying its id is changed or created), returns the
\* schedule, sets last_executed = now and advances or deactivates it.
C6_AsStated ==
    BillSweepDone =>
        \A s \in DueIds(last.pre.schedules, now) :
            LinkedBillRemoved(s) =>
                /\ last.res = "Ok"
                /\ ExecutedAtNow(s)
                /\ \A b \in Carriers(bills, s) :
                      b \in DOMAIN last.pre.bills /\ bills[b] = last.pre.bills[b]

\* the case in which C6 fails: the bill the schedule was created for has been
\* removed, and the sweep has fulfilled a successor that inherited the
\* schedule's id
C6_SuccessorFulfilled ==
    /\ BillSweepDone
    /\ \E s \in DueIds(last.pre.schedules, now) :
          /\ LinkedBillRemoved(s)
          /\ \E b \in Carriers(last.pre.bills, s) :
                ~last.pre.bills[b].paid /\ bills[b].paid /\ bills[b].paid_at = now

\* The part of C6 that holds: when the bill a due active schedule was created for
\* has been removed by cancel_bill and no stored bill carries the schedule's
\* id, the sweep succeeds, fulfils nothing for that schedule, returns the
\* schedule, sets last_executed = now and advances or deactivates it.
C6_OrphanTolerance ==
    BillSweepDone =>
        \A s \in DueIds(last.pre.schedules, now) :
            (LinkedBillRemoved(s) /\ Carriers(last.pre.bills, s) = {}) =>
                /\ last.res = "Ok"
                /\ ExecutedAtNow(s)
                /\ Carriers(bills, s) = {}
                /\ DueIds(last.pre.schedules, now) = {s} =>
                      /\ bills = last.pre.bills
                      /\ nextId = last.pre.nextId
                      /\ \A i \in 1..Len(last.events) : last.events[i].topic # "bill"

\* a sweep has executed a schedule whose bill had been removed, with no other
\* bill carrying its id
C6_OrphanExecuted ==
    /\ BillSweepDone
    /\ \E s \in DueIds(last.pre.schedules, now) :
          /\ LinkedBillRemoved(s)
          /\ Carriers(last.pre.bills, s) = {}
          /\ Returned(s)
          /\ schedules[s].last_executed = now

\* what pay_bill, called by each resolved bill's owner, makes of the bills when
\* it is called for the schedules of the list in turn
RECURSIVE PayBillForEach(_, _, _, _)
PayBillForEach(bs, nid, list, current_time) ==
    IF list = <<>> THEN [bills |-> bs, nextId |-> nid]
    ELSE LET b == find_bill_by_schedule(bs, Head(list))
         IN IF b # None /\ PayBillError(bs, bs[b].owner, b) = "Ok"
            THEN LET r == PayBillStore(bs, nid, b, current_time)
                 IN PayBillForEach(r.bills, r.nextId, Tail(list), current_time)
            ELSE PayBillForEach(bs, nid, Tail(list), current_time)

\* C7: for a due schedule whose linked bill is unpaid the sweep changes the
\* bill store and the bill id counter as pay_bill called by the bill's owner
\* at the same clock value does: the bill is paid with paid_at = now and, if
\* it recurs, exactly one successor is created under the next id.
C7_SweepPaysLikePayBill ==
    BillSweepDone =>
        /\ PayBillForEach(last.pre.bills, last.pre.nextId, last.executed, now)
               = [bills |-> bills, nextId |-> nextId]
        /\ \A s \in DueIds(last.pre.schedules, now) :
              LET b == find_bill_by_schedule(last.pre.bills, s)
              IN (b # None /\ ~last.pre.bills[b].paid) =>
                    /\ bills[b] = [last.pre.bills[b] EXCEPT !.paid = TRUE,
                                                            !.paid_at = now]
                    /\ DueIds(last.pre.schedules, now) = {s} =>
                          IF last.pre.bills[b].recurring
                          THEN /\ nextId = last.pre.nextId + 1
                               /\ DOMAIN bills = DOMAIN last.pre.bills \cup {nextId}
                               /\ nextId \notin DOMAIN last.pre.bills
                          ELSE /\ nextId = last.pre.nextId
                               /\ DOMAIN bills = DOMAIN last.pre.bills

\* a sweep has fulfilled an unpaid recurring bill and created its successor
C7_Witness ==
    /\ BillSweepDone
    /\ \E s \in DueIds(last.pre.schedules, now) :
          LET b == find_bill_by_schedule(last.pre.bills, s)
          IN /\ b # None
             /\ ~last.pre.bills[b].paid /\ last.pre.bills[b].recurring
             /\ bills[b].paid
             /\ nextId = last.pre.nextId + 1

\* C8: when the bill linked to a due active schedule is already paid, the
\* sweep leaves the bill as it is (paid_at included) and creates no successor,
\* and the schedule is executed all the same: returned, last_executed = now,
\* advanced or deactivated.
C8_PaidBillLeftAlone ==
    BillSweepDone =>
        \A s \in DueIds(last.pre.schedules, now) :
            LET b == find_bill_by_schedule(last.pre.bills, s)
            IN (b # None /\ last.pre.bills[b].paid) =>
                  /\ b \in DOMAIN bills
                  /\ bills[b] = last.pre.bills[b]
                  /\ bills[b].paid_at = last.pre.bills[b].paid_at
                  /\ Carriers(bills, s) = Carriers(last.pre.bills, s)
                  /\ ExecutedAtNow(s)
                  /\ DueIds(last.pre.schedules, now) = {s} =>
                        bills = last.pre.bills /\ nextId = last.pre.nextId

\* a sweep has executed a schedule whose bill had been paid at an earlier
\* clock value
C8_Witness ==
    /\ BillSweepDone
    /\ \E s \in DueIds(last.pre.schedules, now) :
          LET b == find_bill_by_schedule(last.pre.bills, s)
          IN /\ b # None
             /\ last.pre.bills[b].paid
             /\ last.pre.bills[b].recurring
             /\ last.pre.bills[b].paid_at < now
             /\ Returned(s)

\* ------------------------------------------------------------------------
\* Properties of pay_bill and of the schedules' active flag
\* ------------------------------------------------------------------------
PayBillDone == last.op = "pay_bill" /\ last.res = "Ok"

\* C9: fulfilling an unpaid recurring bill with due_date D and frequency_days F
\* creates exactly one successor under a new id with due_date D + F * 86400,
\* unpaid, paid_at none, and the owner, amount, frequency and schedule id of
\* the original; the original stays stored as paid, and no invocation turns a
\* paid bill back to unpaid.  Fulfilling a non-recurring bill creates no bill.
C9_PayBillChaining ==
    /\ PayBillDone =>
          LET id == last.args[2]
              old == last.pre.bills[id]
              new == last.pre.nextId + 1
          IN /\ ~old.paid
             /\ id \in DOMAIN bills
             /\ bills[id] = [old EXCEPT !.paid = TRUE, !.paid_at = now]
             /\ \A b \in DOMAIN last.pre.bills \ {id} :
                   b \in DOMAIN bills /\ bills[b] = last.pre.bills[b]
             /\ IF old.recurring
                THEN /\ new \notin DOMAIN last.pre.bills
                     /\ DOMAIN bills = DOMAIN last.pre.bills \cup {new}
                     /\ nextId = new
                     /\ bills[new].id = new
                     /\ bills[new].due_date = old.due_date + old.frequency_days * 86400
                     /\ ~bills[new].paid
                     /\ bills[new].paid_at = None
                     /\ bills[new].owner = old.owner
                     /\ bills[new].amount = old.amount
                     /\ bills[new].frequency_days = old.frequency_days
                     /\ bills[new].schedule_id = old.schedule_id
                ELSE /\ DOMAIN bills = DOMAIN last.pre.bills
                     /\ nextId = last.pre.nextId
    /\ (contract = "bill" /\ ~Idle) =>
          \A b \in DOMAIN last.pre.bills \cap DOMAIN bills :
              last.pre.bills[b].paid => bills[b].paid

\* pay_bill has fulfilled a recurring bill that carries a schedule id
C9_Witness ==
    /\ PayBillDone
    /\ last.pre.bills[last.args[2]].recurring
    /\ last.pre.bills[last.args[2]].schedule_id # None
    /\ nextId \in DOMAIN bills
    /\ nextId \notin DOMAIN last.pre.bills

\* C10: deactivation is terminal.  No invocation of either contract, a
\* modification with a future next_due and a positive interval included,
\* leaves active a schedule that was inactive when it started.
C10_DeactivationIsTerminal ==
    /\ (contract = "bill" /\ ~Idle) =>
          \A s \in DOMAIN last.pre.schedules :
              ~last.pre.schedules[s].active
                  => s \in DOMAIN schedules /\ ~schedules[s].active
    /\ (contract = "insurance" /\ ~Idle) =>
          \A s \in DOMAIN last.pre.premSchedules :
              ~last.pre.premSchedules[s].active
                  => s \in DOMAIN premSchedules /\ ~premSchedules[s].active

\* modify_schedule has accepted a future next_due and a positive interval for
\* an inactive schedule
C10_Witness ==
    /\ last.op = "modify_schedule" /\ last.res = "Ok"
    /\ ~last.pre.schedules[last.args[2]].active
    /\ last.args[3] > now /\ last.args[4] > 0
    /\ schedules[last.args[2]].next_due = last.args[3]
    /\ schedules[last.args[2]].interval = last.args[4]

\* ------------------------------------------------------------------------
\* Properties of every invocation, stated on its record
\* ------------------------------------------------------------------------
BillCallDone == contract = "bill" /\ ~Idle
InsuranceCallDone == contract = "insurance" /\ ~Idle

\* the schedules of the contract before and after the invocation that has
\* just returned
SchedulesBefore == IF contract = "bill" THEN last.pre.schedules
                   ELSE last.pre.premSchedules
SchedulesAfter == IF contract = "bill" THEN schedules ELSE premSchedules

\* C11: missed_count never decreases.  Every invocation of either contract
\* keeps each schedule and leaves its missed_count at least what it was; only
\* a sweep changes it; a schedule that the invocation created starts at 0.
C11_MissedCountMonotone ==
    ~Idle =>
        /\ \A s \in DOMAIN SchedulesBefore :
              /\ s \in DOMAIN SchedulesAfter
              /\ SchedulesAfter[s].missed_count >= SchedulesBefore[s].missed_count
              /\ ~SweepDone =>
                    SchedulesAfter[s].missed_count = SchedulesBefore[s].missed_count
        /\ \A s \in DOMAIN SchedulesAfter \ DOMAIN SchedulesBefore :
              /\ last.op \in {"create_schedule", "create_premium_schedule"}
              /\ SchedulesAfter[s].missed_count = 0

\* modify_schedule has been accepted for a schedule that had missed intervals
C11_Witness ==
    /\ last.op = "modify_schedule" /\ last.res = "Ok"
    /\ last.pre.schedules[last.args[2]].missed_count > 0
    /\ schedules[last.args[2]].next_due = last.args[3]

\* C12: create_bill fails with InvalidAmount when amount <= 0 and with
\* InvalidFrequency when the bill is recurring with frequency_days = 0 (the
\* amount is checked first); a failed create_bill stores no bill and leaves
\* the id counter alone, and a successful one returns the counter plus 1.
\* create_policy aborts likewise on a premium or coverage that is not positive.
C12_CreateBillValidation ==
    /\ last.op = "create_bill" =>
          LET amount == last.args[3]
              recurring == last.args[5]
              frequency_days == last.args[6]
          IN /\ amount <= 0 => last.res = "InvalidAmount"
             /\ (amount > 0 /\ recurring /\ frequency_days = 0)
                   => last.res = "InvalidFrequency"
             /\ (recurring /\ frequency_days = 0) => last.res # "Ok"
             /\ last.res # "Ok" => BillStore = last.pre /\ last.events = <<>>
             /\ last.res = "Ok" =>
                   /\ last.val = last.pre.nextId + 1
                   /\ nextId = last.val
                   /\ DOMAIN bills = DOMAIN last.pre.bills \cup {last.val}
    /\ last.op = "create_policy" =>
          /\ (last.args[4] <= 0 \/ last.args[5] <= 0) => last.res # "Ok"
          /\ last.res # "Ok" => InsStore = last.pre /\ last.events = <<>>

\* create_bill has been refused for its frequency by a contract that stores a
\* bill already
C12_Witness ==
    /\ last.op = "create_bill"
    /\ last.res = "InvalidFrequency"
    /\ last.pre.nextId = 1 /\ nextId = 1
    /\ DOMAIN bills = {1}

\* ------------------------------------------------------------------------
\* Properties of the totals
\* ------------------------------------------------------------------------
\* the sum of f[k] over the keys k in ids, grouped by value: every value v
\* counts as often as there are keys holding it
SumOver(f, ids) ==
    LET values == {f[k] : k \in ids}
        RECURSIVE Weighted(_)
        Weighted(vs) ==
            IF vs = {} THEN 0
            ELSE LET v == CHOOSE x \in vs : TRUE
                 IN v * Cardinality({k \in ids : f[k] = v}) + Weighted(vs \ {v})
    IN Weighted(values)

\* C13: get_total_unpaid(o) is the sum of the amounts of the stored bills of
\* owner o that are unpaid, and get_total_monthly_premium(o) is the sum of the
\* monthly premiums of the stored policies of owner o that are active, for
\* every owner o: in every state, and as the value the entry point returns.
C13_TotalsAreSums ==
    /\ \A o \in Owners :
          /\ get_total_unpaid(o) =
                SumOver([b \in DOMAIN bills |-> bills[b].amount],
                        {b \in DOMAIN bills : bills[b].owner = o /\ ~bills[b].paid})
          /\ get_total_monthly_premium(o) =
                SumOver([p \in DOMAIN policies |-> policies[p].monthly_premium],
                        {p \in DOMAIN policies :
                            policies[p].owner = o /\ policies[p].active})
    /\ last.op = "get_total_unpaid" =>
          /\ last.val =
                SumOver([b \in DOMAIN bills |-> bills[b].amount],
                        {b \in DOMAIN bills :
                            bills[b].owner = last.args[1] /\ ~bills[b].paid})
          /\ BillStore = last.pre
    /\ last.op = "get_total_monthly_premium" =>
          /\ last.val =
                SumOver([p \in DOMAIN policies |-> policies[p].monthly_premium],
                        {p \in DOMAIN policies :
                            policies[p].owner = last.args[1] /\ policies[p].active})
          /\ InsStore = last.pre

\* get_total_unpaid has returned the sum of an owner's two unpaid bills, of
\* different amounts, next to a bill of another owner
C13_Witness ==
    /\ last.op = "get_total_unpaid"
    /\ last.args[1] = "alice"
    /\ last.val = 3
    /\ Cardinality({b \in DOMAIN bills :
                       bills[b].owner = "alice" /\ ~bills[b].paid}) = 2
    /\ \E b \in DOMAIN bills : bills[b].owner = "bob" /\ ~bills[b].paid

\* ------------------------------------------------------------------------
\* Properties of pay_bill's errors and of the paid flag
\* ------------------------------------------------------------------------
\* C14: pay_bill fails with BillNotFound when no bill is stored under the id
\* (never created, or cancelled), with Unauthorized when the caller is not the
\* bill's owner, and with BillAlreadyPaid when the owner pays a paid bill;
\* a failed pay_bill leaves the bills, the schedules and both id counters as
\* they were, creates no successor and publishes nothing.
C14_PayBillErrors ==
    last.op = "pay_bill" =>
        LET caller == last.args[1]
            id == last.args[2]
            stored == id \in DOMAIN last.pre.bills
        IN /\ ~stored => last.res = "BillNotFound"
           /\ (stored /\ last.pre.bills[id].owner # caller)
                 => last.res = "Unauthorized"
           /\ (stored /\ last.pre.bills[id].owner = caller /\ last.pre.bills[id].paid)
                 => last.res = "BillAlreadyPaid"
           /\ (stored /\ last.pre.bills[id].paid) => last.res # "Ok"
           /\ last.res = "Ok" =>
                 stored /\ last.pre.bills[id].owner = caller /\ ~last.pre.bills[id].paid
           /\ last.res # "Ok" =>
                 /\ BillStore = last.pre
                 /\ last.events = <<>>

\* pay_bill has been refused for a bill that was cancelled
C14_NotFoundWitness ==
    /\ last.op = "pay_bill" /\ last.res = "BillNotFound"
    /\ last.args[2] <= last.pre.nextId
    /\ last.args[2] \notin DOMAIN last.pre.bills

\* pay_bill has been refused for a recurring bill that is paid already, and
\* has created no successor
C14_Witness ==
    /\ last.op = "pay_bill" /\ last.res = "BillAlreadyPaid"
    /\ last.pre.bills[last.args[2]].recurring
    /\ last.pre.bills[last.args[2]].paid
    /\ nextId = last.pre.nextId

\* C15: in every reachable state every stored bill has paid_at set if and
\* only if it is paid, whether pay_bill or the sweep fulfilled it, and no
\* invocation changes a paid_at that is set.
C15_PaidAtIffPaid ==
    /\ \A b \in DOMAIN bills : (bills[b].paid_at # None) <=> bills[b].paid
    /\ BillCallDone =>
          \A b \in DOMAIN last.pre.bills \cap DOMAIN bills :
              last.pre.bills[b].paid_at # None
                  => bills[b].paid_at = last.pre.bills[b].paid_at

\* a sweep has fulfilled a bill at now while a bill paid at an earlier clock
\* value is stored
C15_Witness ==
    /\ BillSweepDone
    /\ \E b \in DOMAIN last.pre.bills :
          /\ ~last.pre.bills[b].paid /\ last.pre.bills[b].paid_at = None
          /\ bills[b].paid /\ bills[b].paid_at = now
    /\ \E b \in DOMAIN last.pre.bills :
          /\ last.pre.bills[b].paid
          /\ last.pre.bills[b].paid_at < now
          /\ bills[b].paid_at = last.pre.bills[b].paid_at

\* ------------------------------------------------------------------------
\* Properties of the ids
\* ------------------------------------------------------------------------
\* the bills the invocation that has just returned added to the store
NewBillIds == DOMAIN bills \ DOMAIN last.pre.bills

\* C16: bill ids are unique and never reused.  Every stored bill's id field
\* is its key and no key exceeds the counter; the counter never decreases;
\* create_bill and pay_bill add at most the bill with id counter + 1, a sweep
\* adds the ids counter + 1, counter + 2, ... in turn, and each added id
\* becomes the counter, so it exceeds every id assigned before, the ids of
\* cancelled bills included; the first id is 1.
C16_BillIdsNeverReused ==
    /\ \A b \in DOMAIN bills : bills[b].id = b /\ b >= 1 /\ b <= nextId
    /\ BillCallDone =>
          /\ nextId >= last.pre.nextId
          /\ NewBillIds = (last.pre.nextId + 1)..nextId
          /\ \A b \in NewBillIds : \A old \in DOMAIN last.pre.bills : b > old
          /\ last.op \in {"create_bill", "pay_bill"} => nextId <= last.pre.nextId + 1
          /\ last.op \notin {"create_bill", "pay_bill", "execute_due_schedules"}
                => nextId = last.pre.nextId
          /\ (last.op = "create_bill" /\ last.res = "Ok") =>
                /\ NewBillIds = {last.val}
                /\ last.val = last.pre.nextId + 1
                /\ last.pre.nextId = 0 => last.val = 1

\* a successor has been created, by pay_bill or by the sweep, after a bill
\* with a lower id was cancelled
C16_Witness ==
    /\ last.op \in {"pay_bill", "execute_due_schedules"}
    /\ NewBillIds = {last.pre.nextId + 1}
    /\ \E gone \in 1..last.pre.nextId : gone \notin DOMAIN last.pre.bills
    /\ DOMAIN last.pre.bills # {}

\* ------------------------------------------------------------------------
\* Properties of schedule creation, modification and cancellation
\* ------------------------------------------------------------------------
\* C17: create_schedule and create_premium_schedule fail when the referenced
\* bill or policy is not stored, when its owner is not the given owner, or
\* when next_due <= now; a failed creation stores no schedule and leaves the
\* schedule id counter and the schedule_id of every bill or policy as they
\* were (an error result in the bill contract, an abort in the insurance one).
C17_ScheduleCreationFailure ==
    /\ last.op = "create_schedule" =>
          LET owner == last.args[1]
              id == last.args[2]
              next_due == last.args[3]
              valid == /\ id \in DOMAIN last.pre.bills
                       /\ last.pre.bills[id].owner = owner
                       /\ next_due > now
          IN /\ valid <=> last.res = "Ok"
             /\ id \notin DOMAIN last.pre.bills => last.res = "BillNotFound"
             /\ last.res # "Ok" =>
                   /\ schedules = last.pre.schedules
                   /\ nextSch = last.pre.nextSch
                   /\ bills = last.pre.bills
                   /\ nextId = last.pre.nextId
                   /\ last.events = <<>>
    /\ last.op = "create_premium_schedule" =>
          LET owner == last.args[1]
              id == last.args[2]
              next_due == last.args[3]
              valid == /\ id \in DOMAIN last.pre.policies
                       /\ last.pre.policies[id].owner = owner
                       /\ next_due > now
          IN /\ valid <=> last.res = "Ok"
             /\ last.res # "Ok" =>
                   /\ InsStore = last.pre
                   /\ last.events = <<>>

\* create_schedule has been refused, for a due time that is not in the future,
\* on a bill of the caller that carries a schedule id
C17_Witness ==
    /\ last.op = "create_schedule" /\ last.res # "Ok"
    /\ last.args[3] <= now
    /\ last.args[2] \in DOMAIN bills
    /\ bills[last.args[2]].owner = last.args[1]
    /\ bills[last.args[2]].schedule_id # None
    /\ nextSch >= 1

\* C18: a successful create_schedule or create_premium_schedule stores one new
\* schedule under id = previous schedule counter + 1, with the given next_due
\* and interval, owner = the caller, active = TRUE, missed_count = 0,
\* last_executed = none and created_at = now, and sets the schedule_id of the
\* referenced bill or policy to the new id; nothing else is changed.
C18_ScheduleCreationSuccess ==
    /\ (last.op = "create_schedule" /\ last.res = "Ok") =>
          LET new == last.pre.nextSch + 1
              bill_id == last.args[2]
          IN /\ last.val = new /\ nextSch = new
             /\ DOMAIN schedules = DOMAIN last.pre.schedules \cup {new}
             /\ new \notin DOMAIN last.pre.schedules
             /\ \A s \in DOMAIN last.pre.schedules : schedules[s] = last.pre.schedules[s]
             /\ schedules[new].id = new
             /\ schedules[new].owner = last.args[1]
             /\ schedules[new].next_due = last.args[3]
             /\ schedules[new].interval = last.args[4]
             /\ schedules[new].recurring = (last.args[4] > 0)
             /\ schedules[new].active = TRUE
             /\ schedules[new].missed_count = 0
             /\ schedules[new].last_executed = None
             /\ schedules[new].created_at = now
             /\ DOMAIN bills = DOMAIN last.pre.bills
             /\ bills[bill_id] = [last.pre.bills[bill_id] EXCEPT !.schedule_id = new]
             /\ \A b \in DOMAIN bills \ {bill_id} : bills[b] = last.pre.bills[b]
             /\ nextId = last.pre.nextId
    /\ (last.op = "create_premium_schedule" /\ last.res = "Ok") =>
          LET new == last.pre.nextPremSch + 1
              policy_id == last.args[2]
          IN /\ last.val = new /\ nextPremSch = new
             /\ DOMAIN premSchedules = DOMAIN last.pre.premSchedules \cup {new}
             /\ new \notin DOMAIN last.pre.premSchedules
             /\ \A s \in DOMAIN last.pre.premSchedules :
                   premSchedules[s] = last.pre.premSchedules[s]
             /\ premSchedules[new].id = new
             /\ premSchedules[new].owner = last.args[1]
             /\ premSchedules[new].policy_id = policy_id
             /\ premSchedules[new].next_due = last.args[3]
             /\ premSchedules[new].interval = last.args[4]
             /\ premSchedules[new].recurring = (last.args[4] > 0)
             /\ premSchedules[new].active = TRUE
             /\ premSchedules[new].missed_count = 0
             /\ premSchedules[new].last_executed = None
             /\ premSchedules[new].created_at = now
             /\ DOMAIN policies = DOMAIN last.pre.policies
             /\ policies[policy_id] =
                   [last.pre.policies[policy_id] EXCEPT !.schedule_id = new]
             /\ \A p \in DOMAIN policies \ {policy_id} :
                   policies[p] = last.pre.policies[p]
             /\ nextPolicyId = last.pre.nextPolicyId

\* a second schedule has been created, after the clock has moved, for a bill
\* that already carried the id of the first one
C18_Witness ==
    /\ last.op = "create_schedule" /\ last.res = "Ok"
    /\ last.val = 2 /\ now > 0
    /\ last.pre.bills[last.args[2]].schedule_id = 1
    /\ bills[last.args[2]].schedule_id = 2
    /\ schedules[2].created_at = now

\* C19: modify_schedule and modify_premium_schedule succeed only when the
\* schedule is stored, the caller is its owner and next_due > now; a successful
\* call overwrites exactly next_due, interval and recurring (= interval > 0) of
\* that schedule and leaves its active flag, missed_count, last_executed, owner
\* and created_at, every other schedule and every bill or policy unchanged; a
\* failed call changes nothing.
C19_ModifyFrame ==
    /\ last.op = "modify_schedule" =>
          LET caller == last.args[1]
              id == last.args[2]
              before == last.pre.schedules
              valid == /\ id \in DOMAIN before
                       /\ before[id].owner = caller
                       /\ last.args[3] > now
          IN /\ valid <=> last.res = "Ok"
             /\ DOMAIN schedules = DOMAIN before
             /\ \A s \in DOMAIN before \ {id} : schedules[s] = before[s]
             /\ bills = last.pre.bills
             /\ nextId = last.pre.nextId /\ nextSch = last.pre.nextSch
             /\ last.res # "Ok" => schedules = before /\ last.events = <<>>
             /\ last.res = "Ok" =>
                   /\ schedules[id].next_due = last.args[3]
                   /\ schedules[id].interval = last.args[4]
                   /\ schedules[id].recurring = (last.args[4] > 0)
                   /\ schedules[id].active = before[id].active
                   /\ schedules[id].missed_count = before[id].missed_count
                   /\ schedules[id].last_executed = before[id].last_executed
                   /\ schedules[id].owner = before[id].owner
                   /\ schedules[id].created_at = before[id].created_at
                   /\ schedules[id].id = before[id].id
    /\ last.op = "modify_premium_schedule" =>
          LET caller == last.args[1]
              id == last.args[2]
              before == last.pre.premSchedules
              valid == /\ id \in DOMAIN before
                       /\ before[id].owner = caller
                       /\ last.args[3] > now
          IN /\ valid <=> last.res = "Ok"
             /\ DOMAIN premSchedules = DOMAIN before
             /\ \A s \in DOMAIN before \ {id} : premSchedules[s] = before[s]
             /\ policies = last.pre.policies
             /\ nextPolicyId = last.pre.nextPolicyId
             /\ nextPremSch = last.pre.nextPremSch
             /\ last.res # "Ok" => premSchedules = before /\ last.events = <<>>
             /\ last.res = "Ok" =>
                   /\ premSchedules[id].next_due = last.args[3]
                   /\ premSchedules[id].interval = last.args[4]
                   /\ premSchedules[id].recurring = (last.args[4] > 0)
                   /\ premSchedules[id].active = before[id].active
                   /\ premSchedules[id].missed_count = before[id].missed_count
                   /\ premSchedules[id].last_executed = before[id].last_executed
                   /\ premSchedules[id].owner = before[id].owner
                   /\ premSchedules[id].created_at = before[id].created_at
                   /\ premSchedules[id].policy_id = before[id].policy_id
                   /\ premSchedules[id].id = before[id].id

\* a schedule that has been executed, with a missed period on record, has been
\* modified from recurring to one-time
C19_Witness ==
    /\ last.op = "modify_schedule" /\ last.res = "Ok"
    /\ last.pre.schedules[last.args[2]].last_executed # None
    /\ last.pre.schedules[last.args[2]].missed_count > 0
    /\ last.pre.schedules[last.args[2]].recurring
    /\ ~schedules[last.args[2]].recurring

\* a caller who does not own the schedule has been refused
C19_RefusalWitness ==
    /\ last.op = "modify_schedule" /\ last.res = "Unauthorized"
    /\ last.args[3] > now

\* C20: cancel_schedule succeeds exactly for the owner of a stored schedule
\* and leaves that schedule with active = FALSE, every other field as it was;
\* a call by anyone else fails and leaves the schedule as it was, active if
\* it was active.  No invocation, modify_schedule included, switches an
\* inactive schedule on again, and a sweep neither returns the id of a
\* schedule that was inactive when it started nor touches that schedule or a
\* bill carrying its id, whatever the clock and the schedule's next_due.
C20_CancelIsFinal ==
    /\ last.op = "cancel_schedule" =>
          LET caller == last.args[1]
              id == last.args[2]
              before == last.pre.schedules
          IN /\ (id \in DOMAIN before /\ before[id].owner = caller) <=> last.res = "Ok"
             /\ (id \in DOMAIN before /\ before[id].owner # caller) =>
                   /\ last.res = "Unauthorized"
                   /\ schedules[id] = before[id]
             /\ last.res # "Ok" => BillStore = last.pre
             /\ last.res = "Ok" =>
                   /\ ~schedules[id].active
                   /\ schedules[id] = [before[id] EXCEPT !.active = FALSE]
                   /\ \A s \in DOMAIN before \ {id} : schedules[s] = before[s]
                   /\ DOMAIN schedules = DOMAIN before
                   /\ bills = last.pre.bills
    /\ BillCallDone =>
          \A s \in DOMAIN last.pre.schedules :
              ~last.pre.schedules[s].active
                  => s \in DOMAIN schedules /\ ~schedules[s].active
    /\ BillSweepDone =>
          /\ \A s \in DOMAIN last.pre.schedules :
                ~last.pre.schedules[s].active =>
                   /\ ~Returned(s)
                   /\ schedules[s] = last.pre.schedules[s]
                   /\ \A b \in Carriers(last.pre.bills, s) :
                         b \in DOMAIN bills /\ bills[b] = last.pre.bills[b]
          /\ \A b \in DOMAIN last.pre.bills :
                (b \notin DOMAIN bills \/ bills[b] # last.pre.bills[b]) =>
                   /\ last.pre.bills[b].schedule_id \in DOMAIN last.pre.schedules
                   /\ last.pre.schedules[last.pre.bills[b].schedule_id].active
    /\ last.op = "cancel_premium_schedule" =>
          LET caller == last.args[1]
              id == last.args[2]
              before == last.pre.premSchedules
          IN /\ (id \in DOMAIN before /\ before[id].owner = caller) <=> last.res = "Ok"
             /\ last.res # "Ok" => InsStore = last.pre
             /\ last.res = "Ok" =>
                   /\ premSchedules[id] = [before[id] EXCEPT !.active = FALSE]
                   /\ \A s \in DOMAIN before \ {id} : premSchedules[s] = before[s]
                   /\ policies = last.pre.policies
    /\ PremiumSweepDone =>
          /\ \A s \in DOMAIN last.pre.premSchedules :
                ~last.pre.premSchedules[s].active =>
                   /\ ~Returned(s)
                   /\ premSchedules[s] = last.pre.premSchedules[s]
          /\ \A p \in DOMAIN last.pre.policies :
                policies[p] # last.pre.policies[p] =>
                   \E s \in DOMAIN last.pre.premSchedules :
                      /\ last.pre.premSchedules[s].active
                      /\ last.pre.premSchedules[s].policy_id = p

\* a sweep has run past the next_due of a schedule that was cancelled before
\* it ever ran and was modified afterwards, and has left the unpaid bill that
\* carries its id unpaid
C20_Witness ==
    /\ BillSweepDone
    /\ \E s \in DOMAIN last.pre.schedules :
          /\ ~last.pre.schedules[s].active
          /\ last.pre.schedules[s].last_executed = None
          /\ last.pre.schedules[s].next_due > last.pre.schedules[s].created_at + 1
          /\ last.pre.schedules[s].next_due <= now
          /\ \E b \in Carriers(bills, s) : ~bills[b].paid

\* cancel_schedule has refused a caller who does not own an active schedule
C20_RefusalWitness ==
    /\ last.op = "cancel_schedule" /\ last.res = "Unauthorized"
    /\ schedules[last.args[2]].active

C21_RefusalWitness ==
    /\ last.op = "cancel_bill" /\ last.res = "BillNotFound"
    /\ last.pre.bills # EmptyMap

\* the schedules linked to a bill and the bills linked to a schedule; the
\* bill contract stores the link on the bill
BillSchedulesOf(b) == {s \in DOMAIN schedules : bills[b].schedule_id = s}
BillsOfSchedule(s) == {b \in DOMAIN bills : bills[b].schedule_id = s}

\* the insurance contract stores the link on both sides
PremiumLinked(s, p) ==
    premSchedules[s].policy_id = p \/ policies[p].schedule_id = s
PremiumSchedulesOf(p) == {s \in DOMAIN premSchedules : PremiumLinked(s, p)}
PoliciesOfSchedule(s) == {p \in DOMAIN policies : PremiumLinked(s, p)}

\* C22: the link between a schedule and its bill or policy is 1:1 at the time
\* of linking.  Immediately after a successful create_schedule or
\* create_premium_schedule the new schedule is the only schedule linked to the
\* target bill or policy, and the target is the only bill or policy the new
\* schedule is linked to, also when the target already had a schedule.
C22_AsStated ==
    /\ (last.op = "create_schedule" /\ last.res = "Ok") =>
          /\ BillSchedulesOf(last.args[2]) = {last.val}
          /\ BillsOfSchedule(last.val) = {last.args[2]}
    /\ (last.op = "create_premium_schedule" /\ last.res = "Ok") =>
          /\ PremiumSchedulesOf(last.args[2]) = {last.val}
          /\ PoliciesOfSchedule(last.val) = {last.args[2]}

\* a second premium schedule has been created for a policy, and the first one
\* still names that policy
C22_TwoSchedulesOnePolicy ==
    /\ last.op = "create_premium_schedule" /\ last.res = "Ok"
    /\ last.val = 2
    /\ premSchedules[1].policy_id = last.args[2]
    /\ premSchedules[2].policy_id = last.args[2]
    /\ premSchedules[1].active /\ premSchedules[2].active
    /\ policies[last.args[2]].schedule_id = 2

\* The part of C22 that holds: in the bill contract the link is 1:1 after a
\* successful create_schedule, also for a bill that carried a schedule id,
\* and in the insurance contract the new schedule is linked to the target
\* policy only and the policy's schedule_id names the new schedule only.
C22_LinkAtCreation ==
    /\ (last.op = "create_schedule" /\ last.res = "Ok") =>
          /\ BillSchedulesOf(last.args[2]) = {last.val}
          /\ BillsOfSchedule(last.val) = {last.args[2]}
    /\ (last.op = "create_premium_schedule" /\ last.res = "Ok") =>
          /\ PoliciesOfSchedule(last.val) = {last.args[2]}
          /\ policies[last.args[2]].schedule_id = last.val
          /\ PremiumSchedulesOf(last.args[2]) =
                {last.val} \cup {s \in DOMAIN last.pre.premSchedules :
                                    last.pre.premSchedules[s].policy_id = last.args[2]}

\* a second schedule has been created for a bill that carried the id of the
\* first one
C22_RelinkedBill ==
    /\ last.op = "create_schedule" /\ last.res = "Ok"
    /\ last.pre.bills[last.args[2]].schedule_id = 1
    /\ BillSchedulesOf(last.args[2]) = {2}

\* C23: once the bill a schedule was created for has been fulfilled, by
\* pay_bill or by a sweep, the schedule keeps resolving to that paid bill.
\* As long as the bill is stored and still carries the schedule's id, a sweep
\* that finds the schedule active and due executes it, and no sweep changes a
\* bill carrying that id: the unpaid successor stays unpaid and no further
\* successor is created.
C23_ScheduleResolvesToPaidBill ==
    BillSweepDone =>
       \A s \in DOMAIN last.pre.schedules :
          (/\ s \in DOMAIN linked
           /\ linked[s] \in DOMAIN last.pre.bills
           /\ last.pre.bills[linked[s]].schedule_id = s
           /\ last.pre.bills[linked[s]].paid) =>
             /\ find_bill_by_schedule(last.pre.bills, s) = linked[s]
             /\ IsDue(last.pre.schedules[s], now) => ExecutedAtNow(s)
             /\ Carriers(bills, s) = Carriers(last.pre.bills, s)
             /\ \A b \in Carriers(last.pre.bills, s) : bills[b] = last.pre.bills[b]

\* a sweep has executed a recurring schedule whose recurring bill was paid
\* earlier, and the unpaid successor that carries the schedule's id is still
\* unpaid
C23_Witness ==
    /\ BillSweepDone
    /\ \E s \in DOMAIN last.pre.schedules :
          /\ Returned(s)
          /\ last.pre.schedules[s].recurring
          /\ s \in DOMAIN linked /\ linked[s] \in DOMAIN last.pre.bills
          /\ last.pre.bills[linked[s]].schedule_id = s
          /\ last.pre.bills[linked[s]].paid
          /\ last.pre.bills[linked[s]].recurring
          /\ \E b \in Carriers(bills, s) :
                b # linked[s] /\ ~bills[b].paid

\* ------------------------------------------------------------------------
\* Invariants of the stores
\* ------------------------------------------------------------------------
\* C24: every stored bill, the successors pay_bill and the sweep create
\* included, has amount > 0 and, when recurring, frequency_days > 0; every
\* stored policy has monthly_premium > 0 and coverage_amount > 0.
C24_StoredAmountsPositive ==
    /\ \A b \in DOMAIN bills :
          /\ bills[b].amount > 0
          /\ bills[b].recurring => bills[b].frequency_days > 0
    /\ \A p \in DOMAIN policies :
          /\ policies[p].monthly_premium > 0
          /\ policies[p].coverage_amount > 0

\* a sweep has created the successor of a recurring bill
C24_Witness ==
    /\ BillSweepDone
    /\ \E b \in NewBillIds :
          /\ bills[b].recurring
          /\ bills[b].amount = 2 /\ bills[b].frequency_days = 1
          /\ bills[b].created_at = now

\* a policy is stored after a create_policy with a zero amount was refused
C24_PolicyWitness ==
    /\ last.op = "create_policy" /\ last.res # "Ok"
    /\ policies # EmptyMap

\* C25: every stored schedule of either contract has recurring = (interval > 0),
\* after any mix of create, modify, cancel and sweep.
C25_RecurringIsDerived ==
    /\ \A s \in DOMAIN schedules :
          schedules[s].recurring = (schedules[s].interval > 0)
    /\ \A s \in DOMAIN premSchedules :
          premSchedules[s].recurring = (premSchedules[s].interval > 0)

\* a sweep has executed, and switched off, a schedule that ran as a recurring
\* one before and was then modified to interval 0
C25_Witness ==
    /\ BillSweepDone
    /\ \E s \in DOMAIN last.pre.schedules :
          /\ Returned(s)
          /\ last.pre.schedules[s].last_executed # None
          /\ last.pre.schedules[s].interval = 0
          /\ ~schedules[s].recurring /\ ~schedules[s].active

\* C26: schedules are never removed.  In every reachable state the keys of
\* the schedule store are exactly 1..schedule counter, each schedule's id is
\* its key, and no invocation changes the id or the owner of a schedule that
\* was stored when it started.
C26_SchedulesNeverRemoved ==
    /\ DOMAIN schedules = 1..nextSch
    /\ DOMAIN premSchedules = 1..nextPremSch
    /\ \A s \in DOMAIN schedules : schedules[s].id = s
    /\ \A s \in DOMAIN premSchedules : premSchedules[s].id = s
    /\ ~Idle =>
          \A s \in DOMAIN SchedulesBefore :
             /\ s \in DOMAIN SchedulesAfter
             /\ SchedulesAfter[s].id = SchedulesBefore[s].id
             /\ SchedulesAfter[s].owner = SchedulesBefore[s].owner

\* the first of two schedules has been cancelled and both are still stored
C26_Witness ==
    /\ last.op = "cancel_schedule" /\ last.res = "Ok"
    /\ last.args[2] = 1
    /\ nextSch = 2
    /\ DOMAIN schedules = {1, 2}
    /\ ~schedules[1].active

\* ------------------------------------------------------------------------
\* Notifications of a sweep
\* ------------------------------------------------------------------------
ExecutedKinds == {"Executed", "ScheduleExecuted"}
MissedKinds == {"Missed", "ScheduleMissed"}
EventsOfKind(kinds) == SelectSeq(last.events, LAMBDA e : e.kind \in kinds)

\* what the sweep that has just returned added to the missed_count of s
MissedIncrement(s) == SchedulesAfter[s].missed_count - SchedulesBefore[s].missed_count

\* C27: during one sweep exactly one "executed" notification is emitted for
\* each id in the returned list, in that order, and for no other schedule; a
\* "missed" notification for schedule s is emitted if and only if the sweep
\* increased the missed_count of s, once, carrying s and the increment, and
\* before the "executed" notification of s.
C27_SweepNotifications ==
    (BillSweepDone \/ PremiumSweepDone) =>
       LET ex == EventsOfKind(ExecutedKinds)
           ms == EventsOfKind(MissedKinds)
       IN /\ [i \in 1..Len(ex) |-> ex[i].data] = last.executed
          /\ \A i, j \in 1..Len(last.executed) :
                last.executed[i] = last.executed[j] => i = j
          /\ \A i \in 1..Len(ms) : ms[i].data[1] \in DOMAIN SchedulesBefore
          /\ \A s \in DOMAIN SchedulesBefore :
                LET mine == {i \in 1..Len(ms) : ms[i].data[1] = s}
                IN /\ mine # {} <=> MissedIncrement(s) > 0
                   /\ Cardinality(mine) <= 1
                   /\ \A i \in mine : ms[i].data = <<s, MissedIncrement(s)>>
          /\ \A i, j \in 1..Len(last.events) :
                (/\ last.events[i].kind \in MissedKinds
                 /\ last.events[j].kind \in ExecutedKinds
                 /\ last.events[i].data[1] = last.events[j].data) => i < j
          /\ \A i \in 1..Len(last.events) :
                last.events[i].kind \in MissedKinds => Returned(last.events[i].data[1])

\* a sweep has returned two schedules, one of them with a missed period and
\* the other without
C27_Witness ==
    /\ BillSweepDone
    /\ Len(last.executed) = 2
    /\ Len(EventsOfKind(ExecutedKinds)) = 2
    /\ Len(EventsOfKind(MissedKinds)) = 1

\* ------------------------------------------------------------------------
\* pay_bill and the sweep at the same clock value
\* ------------------------------------------------------------------------
\* schedule s is active and due in store st and resolves to the unpaid bill b
LinkedDue(st, s, b) ==
    /\ s \in DOMAIN st.schedules
    /\ IsDue(st.schedules[s], now)
    /\ find_bill_by_schedule(st.bills, s) = b
    /\ b \in DOMAIN st.bills
    /\ ~st.bills[b].paid

\* the stores a sweep, and a payment of bill b, leave when run on store st at now
SweepOf(st) == Sweep(st.bills, st.nextId, st.schedules, now)
PayOf(st, b) ==
    LET r == PayBillStore(st.bills, st.nextId, b, now)
    IN [bills |-> r.bills, nextId |-> r.nextId, schedules |-> st.schedules]

SameStores(x, y) ==
    x.bills = y.bills /\ x.nextId = y.nextId /\ x.schedules = y.schedules

\* the same stores but for the order in which the bills created since store
\* st received their ids
SameButNewIds(st, x, y) ==
    /\ x.nextId = y.nextId /\ x.schedules = y.schedules
    /\ DOMAIN x.bills = DOMAIN y.bills
    /\ \A b \in DOMAIN x.bills : b <= st.nextId => x.bills[b] = y.bills[b]
    /\ LET new == {b \in DOMAIN x.bills : b > st.nextId}
       IN \E pi \in [new -> new] :
             /\ \A m, n \in new : pi[m] = pi[n] => m = n
             /\ \A n \in new : [x.bills[n] EXCEPT !.id = pi[n]] = y.bills[pi[n]]

\* bill b is paid at now in store x, and x holds one bill more than st that
\* carries the id of schedule s when b recurs, none when it does not
FulfilledOnce(st, x, s, b) ==
    /\ x.bills[b] = [st.bills[b] EXCEPT !.paid = TRUE, !.paid_at = now]
    /\ Cardinality(Carriers(x.bills, s) \ DOMAIN st.bills) =
          IF st.bills[b].recurring THEN 1 ELSE 0

\* C28 as stated: for a due active schedule that resolves to an unpaid bill,
\* pay_bill by the owner followed by a sweep, and a sweep followed by pay_bill
\* by the owner (which then returns BillAlreadyPaid), at the same clock value,
\* end in the same bill store, bill id counter and schedule store.
C28_AsStated ==
    (last.op = "pay_bill" /\ last.res = "Ok") =>
       \A s \in DOMAIN last.pre.schedules :
          LinkedDue(last.pre, s, last.args[2]) =>
             /\ PayBillError(SweepOf(last.pre).bills, last.args[1], last.args[2])
                   = "BillAlreadyPaid"
             /\ SameStores(SweepOf(BillStore), SweepOf(last.pre))

\* C28, amended: the two serializations end in the same schedule store and
\* bill id counter, and in bill stores that agree on every bill that existed
\* before and hold the same new bills, possibly under exchanged ids (a sweep
\* that also fulfils another recurring bill for a schedule with a smaller id
\* numbers the successors in another order); the bill is fulfilled exactly
\* once and gets exactly one successor when it recurs, and pay_bill after the
\* sweep returns BillAlreadyPaid.  The stores are identical when the
\* serialization creates at most one bill.
C28_SerializationsAgree ==
    /\ (last.op = "pay_bill" /\ last.res = "Ok") =>
          \A s \in DOMAIN last.pre.schedules :
             LinkedDue(last.pre, s, last.args[2]) =>
                LET payFirst == SweepOf(BillStore)
                    sweepFirst == SweepOf(last.pre)
                IN /\ PayBillError(sweepFirst.bills, last.args[1], last.args[2])
                         = "BillAlreadyPaid"
                   /\ SameButNewIds(last.pre, payFirst, sweepFirst)
                   /\ FulfilledOnce(last.pre, payFirst, s, last.args[2])
                   /\ FulfilledOnce(last.pre, sweepFirst, s, last.args[2])
                   /\ payFirst.nextId <= last.pre.nextId + 1
                         => SameStores(payFirst, sweepFirst)
    /\ BillSweepDone =>
          \A s \in DOMAIN last.pre.schedules : \A b \in DOMAIN last.pre.bills :
             LinkedDue(last.pre, s, b) =>
                LET paid == PayOf(last.pre, b)
                    payFirst == SweepOf(paid)
                IN /\ PayBillError(bills, last.pre.bills[b].owner, b) = "BillAlreadyPaid"
                   /\ SameButNewIds(last.pre, payFirst, BillStore)
                   /\ FulfilledOnce(last.pre, BillStore, s, b)
                   /\ nextId <= last.pre.nextId + 1 => SameStores(payFirst, BillStore)

\* the owner has paid a recurring bill to which a due schedule resolves, while
\* a due schedule with a smaller id resolves to another unpaid recurring bill
C28_Witness ==
    /\ last.op = "pay_bill" /\ last.res = "Ok"
    /\ last.pre.bills[last.args[2]].recurring
    /\ \E s, t \in DOMAIN last.pre.schedules :
          /\ t < s
          /\ LinkedDue(last.pre, s, last.args[2])
          /\ \E b \in DOMAIN last.pre.bills :
                b # last.args[2] /\ LinkedDue(last.pre, t, b) /\ last.pre.bills[b].recurring

\* a sweep has fulfilled the recurring bill of a due schedule and created its
\* successor
C28_SweepWitness ==
    /\ BillSweepDone
    /\ \E s \in DOMAIN last.pre.schedules : \E b \in DOMAIN last.pre.bills :
          LinkedDue(last.pre, s, b) /\ last.pre.bills[b].recurring

\* ------------------------------------------------------------------------
\* Ranges of the sweep's arithmetic
\* ------------------------------------------------------------------------
\* C29: the sweep never aborts.  For every schedule that passed the validation
\* of create_schedule and every clock value, next_due + interval and the
\* repeated next += interval stay within the range of u64 and
\* missed_count + missed within the range of u32, so that the sweep returns.
C29_AsStated ==
    last.op = "execute_due_schedules" =>
       /\ last.res = "Ok"
       /\ ~SweepOverflows(last.pre.schedules, now)

\* the sweep has aborted on the sum next_due + interval of a schedule that
\* create_schedule accepted, and the schedule is still active and due
C29_SweepAborted ==
    /\ last.op = "execute_due_schedules" /\ last.res # "Ok"
    /\ BillStore = last.pre
    /\ \E s \in DOMAIN schedules :
          /\ IsDue(schedules[s], now)
          /\ schedules[s].next_due + schedules[s].interval > MaxU64
          /\ schedules[s].next_due > schedules[s].created_at

\* ------------------------------------------------------------------------
\* Owners on both sides of a link
\* ------------------------------------------------------------------------
\* C30: whenever a stored bill carries schedule_id = s, schedule s is stored
\* and its owner is the bill's owner, also for successor bills that inherited
\* s; in the insurance contract the policy_id of every schedule names a stored
\* policy whose owner is the schedule's owner.
C30_LinkedOwnersAgree ==
    /\ \A b \in DOMAIN bills :
          bills[b].schedule_id # None =>
             /\ bills[b].schedule_id \in DOMAIN schedules
             /\ schedules[bills[b].schedule_id].owner = bills[b].owner
    /\ \A s \in DOMAIN premSchedules :
          /\ premSchedules[s].policy_id \in DOMAIN policies
          /\ policies[premSchedules[s].policy_id].owner = premSchedules[s].owner

\* pay_bill has created a successor that inherited the schedule id of the
\* bill it paid
C30_Witness ==
    /\ last.op = "pay_bill" /\ last.res = "Ok"
    /\ \E b \in NewBillIds :
          /\ bills[b].schedule_id # None
          /\ bills[b].schedule_id = bills[last.args[2]].schedule_id
          /\ schedules[bills[b].schedule_id].owner = bills[b].owner

\* ------------------------------------------------------------------------
\* Chains of bills behind one schedule id
\* ------------------------------------------------------------------------
\* the unpaid bills of store bs that carry schedule id s
UnpaidCarriers(bs, s) == {b \in Carriers(bs, s) : ~bs[b].paid}

\* C31: in every reachable state of the bill contract, for each schedule id s
\* at most one unpaid bill carries schedule_id = s, however many paid
\* predecessors carry the same s.
C31_OneUnpaidCarrier ==
    \A s \in DOMAIN schedules : Cardinality(UnpaidCarriers(bills, s)) <= 1

\* a schedule id is carried by a paid bill, by its paid successor and by the
\* unpaid successor of that one
C31_Witness ==
    \E s \in DOMAIN schedules :
       /\ Cardinality(Carriers(bills, s)) = 3
       /\ Cardinality(UnpaidCarriers(bills, s)) = 1

\* ------------------------------------------------------------------------
\* What one sweep fulfils and what it leaves alone
\* ------------------------------------------------------------------------
\* the bills that the invocation that has just returned fulfilled
PaidNow == {b \in DOMAIN last.pre.bills :
               ~last.pre.bills[b].paid /\ b \in DOMAIN bills /\ bills[b].paid}

\* C32: one sweep fulfils at most one bill per executed schedule, however
\* many intervals were missed: it fulfils at most one bill carrying the id of
\* a schedule, and only for a schedule it returns, it publishes at most one
\* payment per returned id, and every bill it creates is left unpaid.
C32_OnePaymentPerExecution ==
    BillSweepDone =>
       /\ \A b \in PaidNow :
             /\ last.pre.bills[b].schedule_id \in DOMAIN last.pre.schedules
             /\ Returned(last.pre.bills[b].schedule_id)
             /\ bills[b].paid_at = now
       /\ \A s \in DOMAIN last.pre.schedules :
             Cardinality({b \in PaidNow : last.pre.bills[b].schedule_id = s}) <= 1
       /\ Cardinality(PaidNow) <= Len(last.executed)
       /\ Len(EventsOfKind({"Paid"})) = Cardinality(PaidNow)
       /\ \A b \in NewBillIds : ~bills[b].paid /\ bills[b].paid_at = None
       /\ Cardinality(NewBillIds) <= Cardinality(PaidNow)

\* a sweep that ran late by a whole interval has fulfilled the recurring bill
\* of a schedule and left the successor it created unpaid
C32_Witness ==
    /\ BillSweepDone
    /\ \E s \in DOMAIN last.pre.schedules :
          /\ Returned(s)
          /\ MissedIncrement(s) > 0
          /\ \E b \in PaidNow : last.pre.bills[b].schedule_id = s
          /\ \E b \in NewBillIds : bills[b].schedule_id = s /\ ~bills[b].paid

\* the schedules of the snapshot that the sweep at now selects, and the bills
\* they resolve to
DueNow == {s \in DOMAIN last.pre.schedules : IsDue(last.pre.schedules[s], now)}
ResolvedNow == {find_bill_by_schedule(last.pre.bills, s) : s \in DueNow}

\* the sweep at now over the bills of the snapshot and schedule s alone
SweepAlone(s) ==
    Sweep(last.pre.bills, last.pre.nextId,
          [k \in {s} |-> last.pre.schedules[k]], now)

\* C33: a sweep at clock value now leaves unchanged every schedule that is
\* inactive or has next_due > now, the schedule id counter, and every bill
\* that no due active schedule resolves to; it removes no bill and adds only
\* successors; and what it does to one due schedule is what it would do if
\* no other schedule were stored.
C33_SweepFrame ==
    /\ BillSweepDone =>
          /\ nextSch = last.pre.nextSch
          /\ DOMAIN schedules = DOMAIN last.pre.schedules
          /\ \A s \in DOMAIN last.pre.schedules \ DueNow :
                schedules[s] = last.pre.schedules[s] /\ ~Returned(s)
          /\ DOMAIN bills = DOMAIN last.pre.bills \cup NewBillIds
          /\ \A b \in DOMAIN last.pre.bills \ ResolvedNow : bills[b] = last.pre.bills[b]
          /\ \A b \in NewBillIds :
                \E p \in ResolvedNow \cap PaidNow :
                   bills[b] = SweepNextBill(bills[p], b, now)
          /\ \A s \in DueNow : schedules[s] = SweepAlone(s).schedules[s]
    /\ PremiumSweepDone =>
          /\ nextPremSch = last.pre.nextPremSch
          /\ nextPolicyId = last.pre.nextPolicyId
          /\ DOMAIN premSchedules = DOMAIN last.pre.premSchedules
          /\ DOMAIN policies = DOMAIN last.pre.policies
          /\ \A s \in DOMAIN last.pre.premSchedules :
                ~PremiumIsDue(last.pre.premSchedules[s], now) =>
                   premSchedules[s] = last.pre.premSchedules[s] /\ ~Returned(s)

\* a sweep has executed one schedule with a missed interval and fulfilled its
\* bill while another schedule, active and not yet due, stayed as it was
C33_Witness ==
    /\ BillSweepDone
    /\ PaidNow # {}
    /\ \E s, t \in DOMAIN last.pre.schedules :
          /\ s \in DueNow /\ MissedIncrement(s) > 0
          /\ t \notin DueNow /\ last.pre.schedules[t].active
          /\ schedules[t] = last.pre.schedules[t]

\* ------------------------------------------------------------------------
\* Authorization and ownership
\* ------------------------------------------------------------------------
\* the entry points that call require_auth on their first argument
AuthorizedOps ==
    {"create_bill", "pay_bill", "create_schedule", "modify_schedule", "cancel_schedule",
     "create_policy", "pay_premium", "deactivate_policy", "create_premium_schedule",
     "modify_premium_schedule", "cancel_premium_schedule"}

\* every record that is in one of the maps only, or differs between them,
\* belongs to c
TouchedOnlyOf(before, after, c) ==
    \A k \in DOMAIN before \cup DOMAIN after :
       /\ k \notin DOMAIN before => after[k].owner = c
       /\ k \notin DOMAIN after => before[k].owner = c
       /\ (k \in DOMAIN before /\ k \in DOMAIN after /\ before[k] # after[k])
             => before[k].owner = c /\ after[k].owner = c

TotalUnpaidIn(bs, o) ==
    SumAmounts(bs, {b \in DOMAIN bs : ~bs[b].paid /\ bs[b].owner = o})

\* C34: an operation authorised by caller c never creates, changes or removes
\* a bill, policy or schedule whose owner is not c, whether it succeeds or
\* fails; get_unpaid_bills and get_total_unpaid of every other owner are what
\* they were.
C34_OnlyOwnRecordsTouched ==
    last.op \in AuthorizedOps =>
       LET c == last.args[1]
       IN IF contract = "bill"
          THEN /\ TouchedOnlyOf(last.pre.bills, bills, c)
               /\ TouchedOnlyOf(last.pre.schedules, schedules, c)
               /\ \A o \in Owners \ {c} :
                     /\ get_unpaid_bills(bills, o) = get_unpaid_bills(last.pre.bills, o)
                     /\ get_total_unpaid(o) = TotalUnpaidIn(last.pre.bills, o)
          ELSE /\ TouchedOnlyOf(last.pre.policies, policies, c)
               /\ TouchedOnlyOf(last.pre.premSchedules, premSchedules, c)

\* a caller has paid their own recurring bill, so that a successor was
\* created, while an unpaid bill of another owner is stored
C34_Witness ==
    /\ last.op = "pay_bill" /\ last.res = "Ok"
    /\ NewBillIds # {}
    /\ \E b \in DOMAIN bills :
          bills[b].owner # last.args[1] /\ ~bills[b].paid

\* a caller has been refused on the schedule of another owner
C34_RefusalWitness ==
    /\ last.op \in {"modify_schedule", "cancel_schedule"}
    /\ last.res = "Unauthorized"
    /\ schedules[last.args[2]].owner # last.args[1]
    /\ \E s \in DOMAIN schedules : schedules[s].owner = last.args[1]

\* ------------------------------------------------------------------------
\* Time stamps of a schedule
\* ------------------------------------------------------------------------
\* C35: with a clock that never goes backwards, every schedule has
\* created_at < next_due; last_executed is the clock value of the most recent
\* sweep that returned the schedule (none before the first, and no other
\* invocation writes it); and every active schedule that has been executed
\* has last_executed < next_due.
C35_ScheduleTimeStamps ==
    /\ \A s \in DOMAIN SchedulesAfter :
          LET sch == SchedulesAfter[s]
          IN /\ sch.created_at < sch.next_due
             /\ sch.created_at <= now
             /\ sch.last_executed # None =>
                   /\ sch.created_at < sch.last_executed
                   /\ sch.last_executed <= now
                   /\ sch.active => sch.last_executed < sch.next_due
    /\ ~Idle =>
          \A s \in DOMAIN SchedulesAfter :
             SchedulesAfter[s].last_executed =
                IF (BillSweepDone \/ PremiumSweepDone) /\ Returned(s) THEN now
                ELSE IF s \in DOMAIN SchedulesBefore
                     THEN SchedulesBefore[s].last_executed
                     ELSE None

\* a sweep has executed a recurring schedule for the second time, at a later
\* clock value than the first
C35_Witness ==
    /\ BillSweepDone
    /\ \E s \in DOMAIN last.pre.schedules :
          /\ Returned(s)
          /\ last.pre.schedules[s].last_executed # None
          /\ last.pre.schedules[s].last_executed < now
          /\ schedules[s].last_executed = now
          /\ schedules[s].active

\* ------------------------------------------------------------------------
\* Liveness of the keeper tick
\* ------------------------------------------------------------------------
\* the schedule store of the contract in use
StoredSchedules == IF contract = "bill" THEN schedules ELSE premSchedules

\* schedule s is active and falls due within the horizon of the clock
ActiveWithin(s) ==
    /\ s \in DOMAIN StoredSchedules
    /\ StoredSchedules[s].active
    /\ StoredSchedules[s].next_due <= MaxTime

ReturnedBySweep(s) == (BillSweepDone \/ PremiumSweepDone) /\ Returned(s)

\* C36: if the clock keeps advancing and the sweep keeps being invoked, and no
\* schedule is cancelled or modified, then every active one-time schedule is
\* eventually returned by a sweep and inactive from then on, no sweep returns
\* a one-time schedule that was executed before, and every recurring schedule
\* that is active with a next_due the clock can reach is eventually returned
\* by a sweep, each time again.
C36_KeeperLiveness ==
    /\ \A s \in 1..MaxSchedules :
          (ActiveWithin(s) /\ ~StoredSchedules[s].recurring)
             ~> (ReturnedBySweep(s) /\ ~StoredSchedules[s].active)
    /\ \A s \in 1..MaxSchedules :
          [](ReturnedBySweep(s) /\ ~SchedulesBefore[s].recurring
                => /\ SchedulesBefore[s].last_executed = None
                   /\ ~StoredSchedules[s].active)
    /\ \A s \in 1..MaxSchedules :
          [](~Idle /\ ~SchedulesBefore[s].active => ~StoredSchedules[s].active)
    /\ \A s \in 1..MaxSchedules :
          (ActiveWithin(s) /\ StoredSchedules[s].recurring) ~> ReturnedBySweep(s)

\* a recurring schedule has been returned for the second time while a
\* one-time schedule, returned once, is inactive
C36_Witness ==
    /\ BillSweepDone \/ PremiumSweepDone
    /\ \E s, t \in DOMAIN StoredSchedules :
          /\ Returned(s) /\ StoredSchedules[s].recurring
          /\ SchedulesBefore[s].last_executed # None
          /\ ~StoredSchedules[t].recurring /\ ~StoredSchedules[t].active
          /\ StoredSchedules[t].last_executed # None

\* ------------------------------------------------------------------------
\* Termination of the catch-up loop
\* ------------------------------------------------------------------------
\* C37: the catch-up loop terminates for every reachable schedule and every
\* clock value: a sweep that has entered it reaches the write-back of the
\* stores, and each iteration strictly increases next by interval.
C37_AsStated ==
    /\ InCatchUp ~> (last.op = "execute_due_schedules" /\ last.res = "Ok")
    /\ [][InCatchUp /\ InCatchUp'
             => last'.val.next = last.val.next + schedules[1].interval]_vars

\* with sums that stay in range the loop ends and writes back what the sweep
\* of the contract computes
C37_InRangeWritesBack ==
    (BillSweepDone /\ last.res = "Ok" /\ ~SweepOverflows(last.pre.schedules, now))
        => schedules[1] = Advance(last.pre.schedules[1], now)

\* in a wrapping build the loop goes on from a value of next below the due
\* time it started from
C37_LoopWrapped ==
    /\ InCatchUp
    /\ last.args[1] = "wrapping"
    /\ last.val.missed > 0
    /\ last.val.next < schedules[1].next_due

\* ------------------------------------------------------------------------
\* The premium sweep and the policy of an executed schedule
\* ------------------------------------------------------------------------
\* the schedules a premium sweep has returned for policy p
ReturnedFor(p) ==
    {s \in DOMAIN last.pre.premSchedules :
        Returned(s) /\ last.pre.premSchedules[s].policy_id = p}

\* schedule s left the premium sweep executed at now
PremiumExecutedAtNow(s) ==
    /\ premSchedules[s].last_executed = now
    /\ IF last.pre.premSchedules[s].recurring
       THEN /\ premSchedules[s].active
            /\ premSchedules[s].next_due > now
            /\ premSchedules[s].next_due > last.pre.premSchedules[s].next_due
       ELSE /\ ~premSchedules[s].active
            /\ premSchedules[s].next_due = last.pre.premSchedules[s].next_due

\* C38: a sweep that executes a due schedule whose policy is active sets
\* the policy's next_payment_date to now + 30 * 86400 and changes nothing else
\* on it; when the policy is inactive the sweep leaves it unchanged and still
\* executes the schedule: its id is returned, last_executed is now and next_due
\* is advanced or the schedule is deactivated.
C38_PremiumSweepAndPolicy ==
    PremiumSweepDone =>
        /\ DOMAIN policies = DOMAIN last.pre.policies
        /\ \A p \in DOMAIN policies :
              policies[p] =
                  IF ReturnedFor(p) # {} /\ last.pre.policies[p].active
                  THEN [last.pre.policies[p] EXCEPT
                           !.next_payment_date = now + 30 * 86400]
                  ELSE last.pre.policies[p]
        /\ \A s \in DOMAIN last.pre.premSchedules :
              (last.pre.premSchedules[s].active
               /\ last.pre.premSchedules[s].next_due <= now)
                  => Returned(s) /\ PremiumExecutedAtNow(s)

\* a sweep has executed a schedule of an active policy
C38_Witness ==
    /\ PremiumSweepDone
    /\ \E p \in DOMAIN policies :
          /\ ReturnedFor(p) # {}
          /\ last.pre.policies[p].active
          /\ policies[p].next_payment_date # last.pre.policies[p].next_payment_date

\* a sweep has executed a schedule of an inactive policy
C38_InactiveWitness ==
    /\ PremiumSweepDone
    /\ \E p \in DOMAIN policies :
          /\ ReturnedFor(p) # {}
          /\ ~last.pre.policies[p].active

\* ------------------------------------------------------------------------
\* Deactivated policies
\* ------------------------------------------------------------------------
\* C39: deactivation of a policy is terminal and policies are never
\* removed: no operation drops a stored policy or sets active back to true
\* once it is false, and pay_premium on an inactive policy aborts without
\* changing the state.
C39_DeactivationIsTerminal ==
    InsuranceCallDone =>
        /\ DOMAIN last.pre.policies \subseteq DOMAIN policies
        /\ \A p \in DOMAIN last.pre.policies :
              ~last.pre.policies[p].active => ~policies[p].active
        /\ (/\ last.op = "pay_premium"
            /\ last.args[2] \in DOMAIN last.pre.policies
            /\ ~last.pre.policies[last.args[2]].active)
              => /\ last.res # "Ok"
                 /\ last.events = <<>>
                 /\ InsStore = last.pre

\* the owner's pay_premium on a deactivated policy has been refused
C39_Witness ==
    /\ last.op = "pay_premium"
    /\ last.res = "Policy is not active"
    /\ last.args[1] = policies[last.args[2]].owner
    /\ ~policies[last.args[2]].active

\* a sweep has executed a schedule of a deactivated policy, which stays so
C39_SweepWitness ==
    /\ PremiumSweepDone
    /\ \E p \in DOMAIN policies : ReturnedFor(p) # {} /\ ~policies[p].active

\* ------------------------------------------------------------------------
\* The list of unpaid bills of an owner
\* ------------------------------------------------------------------------
\* the list without the entry of bill b
WithoutBill(list, b) ==
    LET Other(x) == x.id # b IN SelectSeq(list, Other)

\* the list holds exactly the stored unpaid bills of owner o, each once
ExactlyUnpaidOf(list, bs, o) ==
    /\ \A i \in 1..Len(list) :
          /\ list[i].id \in DOMAIN bs
          /\ bs[list[i].id] = list[i]
          /\ list[i].owner = o
          /\ ~list[i].paid
    /\ \A b \in DOMAIN bs :
          (bs[b].owner = o /\ ~bs[b].paid) => \E i \in 1..Len(list) : list[i].id = b
    /\ \A i, j \in 1..Len(list) : i # j => list[i].id # list[j].id

\* C40: get_unpaid_bills(o) returns exactly the stored bills with owner o and
\* paid = false, each once and with distinct ids; a successful pay_bill of a
\* non-recurring bill removes that bill from its owner's list and nothing
\* else, and of a recurring bill replaces it by its successor.
C40_UnpaidBillsList ==
    /\ last.op = "get_unpaid_bills" => ExactlyUnpaidOf(last.val, bills, last.args[1])
    /\ (last.op = "pay_bill" /\ last.res = "Ok") =>
          LET b == last.args[2]
              paid == last.pre.bills[b]
              before == get_unpaid_bills(last.pre.bills, paid.owner)
              after == get_unpaid_bills(bills, paid.owner)
          IN /\ \E i \in 1..Len(before) : before[i].id = b
             /\ after = IF paid.recurring
                        THEN WithoutBill(before, b) \o <<NextBill(paid, nextId, now)>>
                        ELSE WithoutBill(before, b)
             /\ paid.recurring => nextId \notin DOMAIN last.pre.bills
             /\ \A o \in Owners \ {paid.owner} :
                   get_unpaid_bills(bills, o) = get_unpaid_bills(last.pre.bills, o)

\* the list of an owner who has an unpaid bill and a paid one, next to an
\* unpaid bill of another owner, has been returned
C40_Witness ==
    /\ last.op = "get_unpaid_bills"
    /\ Len(last.val) = 1
    /\ \E b \in DOMAIN bills : bills[b].owner = last.args[1] /\ bills[b].paid
    /\ \E b \in DOMAIN bills : bills[b].owner # last.args[1] /\ ~bills[b].paid

\* a recurring bill has been paid and its successor has joined another unpaid
\* bill in the list of its owner
C40_RecurringWitness ==
    /\ last.op = "pay_bill" /\ last.res = "Ok"
    /\ last.pre.bills[last.args[2]].recurring
    /\ Len(get_unpaid_bills(bills, last.args[1])) = 2

\* a non-recurring bill has been paid and has left the list of its owner,
\* which held another bill
C40_OneTimeWitness ==
    /\ last.op = "pay_bill" /\ last.res = "Ok"
    /\ ~last.pre.bills[last.args[2]].recurring
    /\ Len(get_unpaid_bills(last.pre.bills, last.args[1])) >= 2
====
